---- MODULE Spec2Model ----
(***************************************************************************)
(* A model of the expiring key-value store of sylr.dev/cache/v3            *)
(* (cache_mutex.go): the map of items guarded by one RWMutex, the          *)
(* eviction callback slot, the numeric Increment/Decrement, and the        *)
(* janitor goroutine that sweeps expired items on a ticker.                *)
(*                                                                         *)
(* Every goroutine (two callers and the janitor) has a program position    *)
(* pc[t] and the locals of the call it is in, call[t].  One action is one  *)
(* step of a method: the statements before Lock, the Lock itself, the      *)
(* statements under the lock up to Unlock, the statements after Unlock.    *)
(* The clock is the variable now; time.Now().UnixNano() reads it.          *)
(***************************************************************************)
EXTENDS Integers, Sequences, FiniteSets, TLC

\* ------------------------------------------------------------------ bounds
\* The clock runs from 0 to MaxTime.
MaxTime == 2
\* Every caller goroutine makes at most MaxCalls calls.
MaxCalls == 2
\* The number of frames of one method a goroutine's stack holds (the
\* runtime's stack limit over the size of a frame).
MaxStack == 3
\* The longest positive duration a caller passes.
MaxDur == 1

\* ------------------------------------------------------- program constants
NoExpiration == -1
DefaultExpiration == 0
\* The width of the numeric value type T (int8 / uint8).
Bits == 8

Callers == {"c1", "c2"}
JanitorT == "j"
Threads == Callers \cup {JanitorT}
Keys == {"a", "b"}
\* A func(string, *T) value, or nil.
Nil == "nil"
Callbacks == {"f", "g"}
Durations == {NoExpiration, DefaultExpiration} \cup (1..MaxDur)

VARIABLES
    T,                  \* the type parameter of NumericCache[T]: "int8" or "uint8"
    defaultExpiration,  \* cache.defaultExpiration
    items,              \* cache.items: a map, its domain the stored keys
    mu,                 \* cache.mu: [w: the writer or Nil, r: the set of readers]
    onEvicted,          \* cache.onEvicted: Nil or a callback
    janitor,            \* cache.janitor: [Interval, ticker]; Interval = 0 is a nil janitor
    now,                \* the wall clock
    pc,                 \* the position of every goroutine
    call,               \* the arguments and locals of the call a goroutine is in
    ret,                \* what the last finished call of a goroutine returned
    budget,             \* calls a caller may still make
    fault,              \* TRUE once a goroutine panicked (a call of a nil func)
    handle,             \* the *Cache[T] handed to the callers and its finalizer:
                        \* [ci, reachable, finalizer, sending, sent]
    nextId,             \* history: the number of entries written so far
    last,               \* history: per key, the last write that touched the key
    removed,            \* history: the entries removed by delete(), with the
                        \* goroutine that removed each and the callback then set
    called,             \* history: the callback invocations
    ncalls,             \* history: how many callback invocations there were
    oplog               \* history: the old value and the delta of every applied
                        \* Increment and Decrement, in the order they stored

vars == <<T, defaultExpiration, items, mu, onEvicted, janitor, now, pc, call,
          ret, budget, fault, handle, nextId, last, removed, called, ncalls,
          oplog>>

\* ------------------------------------------------------------ pure helpers

\* T's fixed-width arithmetic: the result of an untyped sum reduced to T.
WrapBug(v) == v
Wrap(v) ==
    IF T = "uint8" THEN v % (2 ^ Bits)
    ELSE ((v + 2 ^ (Bits - 1)) % (2 ^ Bits)) - 2 ^ (Bits - 1)

\* Item.Expired()
ExpiredBug(item, t) == t > item.Expiration
Expired(item, t) ==
    IF item.Expiration = 0 THEN FALSE ELSE t > item.Expiration

\* The "inlining of Expired" of Get, get, Items and DeleteExpired.
expiredInlineBug(item, t) == item.Expiration > 0 /\ t >= item.Expiration
expiredInline(item, t) == item.Expiration > 0 /\ t > item.Expiration

\* The expiration Set and set compute from d at time t.
expirationBug(d, t) ==
    LET d2 == IF d = DefaultExpiration THEN defaultExpiration ELSE d
    IN  IF d2 # 0 THEN t + d2 ELSE 0
expiration(d, t) ==
    LET d2 == IF d = DefaultExpiration THEN defaultExpiration ELSE d
    IN  IF d2 > 0 THEN t + d2 ELSE 0

\* c.items[k] = Item{x, e}; id is history (which write stored the entry).
store(m, k, x, e, id) ==
    [kk \in (DOMAIN m) \cup {k} |->
        IF kk = k THEN [Object |-> x, Expiration |-> e, id |-> id] ELSE m[kk]]

\* delete(c.items, k)
remove(m, ks) == [kk \in (DOMAIN m) \ ks |-> m[kk]]

\* cache.get: <<value, found>>; the value of an expired item with found = FALSE.
getBug(k) ==
    IF k \notin DOMAIN items THEN [val |-> 0, present |-> FALSE, found |-> FALSE]
    ELSE [val |-> items[k].Object, present |-> TRUE, found |-> TRUE]
get(k) ==
    IF k \notin DOMAIN items THEN [val |-> 0, present |-> FALSE, found |-> FALSE]
    ELSE IF expiredInline(items[k], now)
         THEN [val |-> items[k].Object, present |-> TRUE, found |-> FALSE]
         ELSE [val |-> items[k].Object, present |-> TRUE, found |-> TRUE]

\* The body of cache.Get: <<value, found>>, the value nil (0) when not found.
GetBug(k) ==
    IF k \notin DOMAIN items THEN [val |-> 0, found |-> FALSE]
    ELSE [val |-> items[k].Object, found |-> TRUE]
Get(k) ==
    IF k \notin DOMAIN items THEN [val |-> 0, found |-> FALSE]
    ELSE IF expiredInline(items[k], now) THEN [val |-> 0, found |-> FALSE]
         ELSE [val |-> items[k].Object, found |-> TRUE]

\* ------------------------------------------------------------------ locals
NoCall ==
    [op |-> "none", k |-> "a", x |-> 0, d |-> 0, e |-> 0, t |-> 0, v |-> 0,
     vexp |-> 0, id |-> 0, evicted |-> FALSE, f |-> Nil, evictedItems |-> <<>>,
     ck |-> "a", cv |-> 0, cid |-> 0, m |-> <<>>, todo |-> {}, depth |-> 0]
\* time.Time{}: the zero time is no instant the clock reads (IsZero is true
\* of it alone); time.Unix(0, ns) is modelled by ns.
ZeroTime == -1
\* What a call returns: the value, the bool or the success, the error, and
\* for GetWithExpiration the time, for Items the map.  A returned map is
\* [alias, items]: a map of its own holding items, or (alias) c.items itself.
NoMap == [alias |-> FALSE, items |-> <<>>]
NoRet == [val |-> 0, ok |-> FALSE, err |-> Nil, exp |-> ZeroTime, m |-> NoMap]
NoLast == [by |-> "none", x |-> 0, d |-> 0, t |-> 0]

\* What no method of the cache writes: the type, the default expiration and
\* the state of the handle.
cfgVars == <<T, defaultExpiration, handle>>
histVars == <<nextId, last, removed, called, ncalls, oplog>>

\* Where a goroutine goes when its call returns: a caller is idle again, the
\* janitor is back at its select.
Home(t) == IF t = JanitorT THEN "select" ELSE "idle"

\* sync.RWMutex
Unlocked == [w |-> Nil, r |-> {}]
CanLockBug(t) == TRUE
CanLock(t) == mu.w = Nil /\ mu.r = {}
CanRLockBug(t) == TRUE
CanRLock(t) == mu.w = Nil

\* A caller enters a method with the arguments and first locals c.
Begin(t, c, at) ==
    /\ ~fault
    /\ pc[t] = "idle"
    /\ budget[t] > 0
    /\ budget' = [budget EXCEPT ![t] = @ - 1]
    /\ call' = [call EXCEPT ![t] = c]
    /\ pc' = [pc EXCEPT ![t] = at]
    /\ ret' = [ret EXCEPT ![t] = NoRet]

\* A caller enters a method whose first statement is c.mu.Lock(): the call is
\* under way once the lock is acquired.
BeginLocked(t, c, at) ==
    /\ Begin(t, c, at)
    /\ CanLock(t)
    /\ mu' = [mu EXCEPT !.w = t]

\* A caller enters a method whose first statement is c.mu.RLock().
BeginRLocked(t, c, at) ==
    /\ Begin(t, c, at)
    /\ CanRLock(t)
    /\ mu' = [mu EXCEPT !.r = @ \cup {t}]

Return(t, val, ok, err) ==
    /\ pc' = [pc EXCEPT ![t] = Home(t)]
    /\ call' = [call EXCEPT ![t] = NoCall]
    /\ ret' = [ret EXCEPT ![t] = [NoRet EXCEPT !.val = val, !.ok = ok,
                                                !.err = err]]

\* The history of a write of x to k by the method op with duration d at time t.
Touch(k, op, x, d, t) ==
    last' = [last EXCEPT ![k] = [by |-> op, x |-> x, d |-> d, t |-> t]]

\* c.mu.Lock() of the two methods that sample the clock before they lock.
LockNext ==
    [Set_Lock |-> "Set_store", DeleteExpired_Lock |-> "DeleteExpired_sweep"]

Lock(t) ==
    /\ ~fault
    /\ pc[t] \in DOMAIN LockNext
    /\ CanLock(t)
    /\ mu' = [mu EXCEPT !.w = t]
    /\ pc' = [pc EXCEPT ![t] = LockNext[pc[t]]]
    /\ UNCHANGED <<cfgVars, histVars, items, onEvicted, janitor, now, call,
                   ret, budget, fault>>

\* ---------------------------------------------------------------- Set
\* The statements of Set before c.mu.Lock(): e is computed from the clock.
SetCall(t, k, x, d) ==
    /\ Begin(t, [NoCall EXCEPT !.op = "Set", !.k = k, !.x = x, !.d = d,
                               !.t = now, !.e = expiration(d, now)],
             "Set_Lock")
    /\ UNCHANGED <<cfgVars, histVars, items, mu, onEvicted, janitor, now,
                   fault>>

\* SetDefault: c.Set(k, x, DefaultExpiration)
SetDefaultCallBug(t, k, x) ==
    /\ Begin(t, [NoCall EXCEPT !.op = "SetDefault", !.k = k, !.x = x,
                               !.d = DefaultExpiration, !.t = now,
                               !.e = expiration(NoExpiration, now)],
             "Set_Lock")
    /\ UNCHANGED <<cfgVars, histVars, items, mu, onEvicted, janitor, now,
                   fault>>
SetDefaultCall(t, k, x) ==
    /\ Begin(t, [NoCall EXCEPT !.op = "SetDefault", !.k = k, !.x = x,
                               !.d = DefaultExpiration, !.t = now,
                               !.e = expiration(DefaultExpiration, now)],
             "Set_Lock")
    /\ UNCHANGED <<cfgVars, histVars, items, mu, onEvicted, janitor, now,
                   fault>>

\* c.items[k] = Item{x, e}, and the deferred Unlock.
SetStore(t) ==
    /\ ~fault
    /\ pc[t] = "Set_store"
    /\ items' = store(items, call[t].k, call[t].x, call[t].e, nextId + 1)
    /\ nextId' = nextId + 1
    /\ Touch(call[t].k, call[t].op, call[t].x, call[t].d, call[t].t)
    /\ mu' = Unlocked
    /\ Return(t, 0, TRUE, Nil)
    /\ UNCHANGED <<oplog, cfgVars, onEvicted, janitor, now, budget, fault, removed,
                   called, ncalls>>

\* The same store at the grain of memory: the composite literal Item{x, e}
\* is written to the map slot field by field, in an order the compiler
\* picks.  SetStoreHalf writes one field, SetStoreRest the other one and runs
\* the deferred Unlock.
SetStoreHalf(t) ==
    /\ ~fault
    /\ pc[t] = "Set_store"
    /\ \E first \in {"Object", "Expiration"} :
          LET old == IF call[t].k \in DOMAIN items THEN items[call[t].k]
                     ELSE [Object |-> 0, Expiration |-> 0, id |-> 0]
          IN  items' = store(items, call[t].k,
                             IF first = "Object" THEN call[t].x ELSE old.Object,
                             IF first = "Expiration" THEN call[t].e
                             ELSE old.Expiration,
                             old.id)
    /\ pc' = [pc EXCEPT ![t] = "Set_store_rest"]
    /\ UNCHANGED <<cfgVars, histVars, mu, onEvicted, janitor, now, call, ret,
                   budget, fault>>

SetStoreRest(t) ==
    /\ ~fault
    /\ pc[t] = "Set_store_rest"
    /\ items' = store(items, call[t].k, call[t].x, call[t].e, nextId + 1)
    /\ nextId' = nextId + 1
    /\ Touch(call[t].k, call[t].op, call[t].x, call[t].d, call[t].t)
    /\ mu' = Unlocked
    /\ Return(t, 0, TRUE, Nil)
    /\ UNCHANGED <<oplog, cfgVars, onEvicted, janitor, now, budget, fault, removed,
                   called, ncalls>>

\* ---------------------------------------------------------------- Add
AddCall(t, k, x, d) ==
    /\ BeginLocked(t, [NoCall EXCEPT !.op = "Add", !.k = k, !.x = x, !.d = d],
             "Add_get")
    /\ UNCHANGED <<cfgVars, histVars, items, onEvicted, janitor, now,
                   fault>>

\* _, found := c.get(k); if found { return error } (and the deferred Unlock)
AddGet(t) ==
    /\ ~fault
    /\ pc[t] = "Add_get"
    /\ IF get(call[t].k).found
       THEN /\ mu' = Unlocked
            /\ Return(t, 0, FALSE, "KeyExists")
       ELSE /\ pc' = [pc EXCEPT ![t] = "Add_set"]
            /\ UNCHANGED <<mu, call, ret>>
    /\ UNCHANGED <<cfgVars, histVars, items, onEvicted, janitor, now, budget,
                   fault>>

\* c.set(k, x, d); return nil (and the deferred Unlock)
AddSetBug(t) ==
    /\ ~fault
    /\ pc[t] = "Add_set"
    /\ items' = store(items, call[t].k, call[t].x,
                      expiration(call[t].d, now), nextId + 1)
    /\ nextId' = nextId + 1
    /\ IF call[t].k \in DOMAIN items /\ onEvicted # Nil
       THEN /\ called' = called \cup
                   {[f |-> onEvicted, key |-> call[t].k,
                     value |-> items[call[t].k].Object,
                     id |-> items[call[t].k].id]}
            /\ ncalls' = ncalls + 1
       ELSE UNCHANGED <<called, ncalls>>
    /\ Touch(call[t].k, "Add", call[t].x, call[t].d, now)
    /\ mu' = Unlocked
    /\ Return(t, 0, TRUE, Nil)
    /\ UNCHANGED <<oplog, cfgVars, onEvicted, janitor, now, budget, fault, removed>>
AddSet(t) ==
    /\ ~fault
    /\ pc[t] = "Add_set"
    /\ items' = store(items, call[t].k, call[t].x,
                      expiration(call[t].d, now), nextId + 1)
    /\ nextId' = nextId + 1
    /\ Touch(call[t].k, "Add", call[t].x, call[t].d, now)
    /\ mu' = Unlocked
    /\ Return(t, 0, TRUE, Nil)
    /\ UNCHANGED <<oplog, cfgVars, onEvicted, janitor, now, budget, fault, removed,
                   called, ncalls>>

\* ------------------------------------------------------------ Replace
ReplaceCall(t, k, x, d) ==
    /\ BeginLocked(t, [NoCall EXCEPT !.op = "Replace", !.k = k, !.x = x, !.d = d],
             "Replace_get")
    /\ UNCHANGED <<cfgVars, histVars, items, onEvicted, janitor, now,
                   fault>>

\* _, found := c.get(k); if !found { return error } (and the deferred Unlock)
ReplaceGetBug(t) ==
    /\ ~fault
    /\ pc[t] = "Replace_get"
    /\ IF ~get(call[t].k).found
       THEN /\ mu' = Unlocked
            /\ items' = remove(items, {call[t].k})
            /\ Return(t, 0, FALSE, "KeyNotFound")
       ELSE /\ pc' = [pc EXCEPT ![t] = "Replace_set"]
            /\ UNCHANGED <<mu, call, ret, items>>
    /\ UNCHANGED <<cfgVars, histVars, onEvicted, janitor, now, budget, fault>>
ReplaceGet(t) ==
    /\ ~fault
    /\ pc[t] = "Replace_get"
    /\ IF ~get(call[t].k).found
       THEN /\ mu' = Unlocked
            /\ Return(t, 0, FALSE, "KeyNotFound")
       ELSE /\ pc' = [pc EXCEPT ![t] = "Replace_set"]
            /\ UNCHANGED <<mu, call, ret>>
    /\ UNCHANGED <<cfgVars, histVars, items, onEvicted, janitor, now, budget,
                   fault>>

ReplaceSet(t) ==
    /\ ~fault
    /\ pc[t] = "Replace_set"
    /\ items' = store(items, call[t].k, call[t].x,
                      expiration(call[t].d, now), nextId + 1)
    /\ nextId' = nextId + 1
    /\ Touch(call[t].k, "Replace", call[t].x, call[t].d, now)
    /\ mu' = Unlocked
    /\ Return(t, 0, TRUE, Nil)
    /\ UNCHANGED <<oplog, cfgVars, onEvicted, janitor, now, budget, fault, removed,
                   called, ncalls>>

\* ---------------------------------------------------------------- Get
GetCall(t, k) ==
    /\ BeginRLocked(t, [NoCall EXCEPT !.op = "Get", !.k = k], "Get_read")
    /\ UNCHANGED <<cfgVars, histVars, items, onEvicted, janitor, now,
                   fault>>

\* The lookup of Get and its deferred RUnlock.
GetRead(t) ==
    /\ ~fault
    /\ pc[t] = "Get_read"
    /\ mu' = [mu EXCEPT !.r = @ \ {t}]
    /\ Return(t, Get(call[t].k).val, Get(call[t].k).found, Nil)
    /\ UNCHANGED <<cfgVars, histVars, items, onEvicted, janitor, now, budget,
                   fault>>

\* ------------------------------------------------------ GetWithExpiration
\* The body of cache.GetWithExpiration: value, expiration time, found.
GetWithExpirationBug(k) ==
    IF k \notin DOMAIN items
    THEN [val |-> 0, exp |-> ZeroTime, found |-> FALSE]
    ELSE IF items[k].Expiration > 0
         THEN IF now > items[k].Expiration
              THEN [val |-> 0, exp |-> ZeroTime, found |-> FALSE]
              ELSE [val |-> items[k].Object, exp |-> ZeroTime, found |-> TRUE]
         ELSE [val |-> items[k].Object, exp |-> ZeroTime, found |-> TRUE]
GetWithExpiration(k) ==
    IF k \notin DOMAIN items
    THEN [val |-> 0, exp |-> ZeroTime, found |-> FALSE]
    ELSE IF items[k].Expiration > 0
         THEN IF now > items[k].Expiration
              THEN [val |-> 0, exp |-> ZeroTime, found |-> FALSE]
              ELSE [val |-> items[k].Object, exp |-> items[k].Expiration,
                    found |-> TRUE]
         ELSE [val |-> items[k].Object, exp |-> ZeroTime, found |-> TRUE]

GetWithExpirationCall(t, k) ==
    /\ BeginRLocked(t, [NoCall EXCEPT !.op = "GetWithExpiration", !.k = k],
                    "GetWithExpiration_read")
    /\ UNCHANGED <<cfgVars, histVars, items, onEvicted, janitor, now,
                   fault>>

\* The lookup of GetWithExpiration and its deferred RUnlock.
GetWithExpirationRead(t) ==
    /\ ~fault
    /\ pc[t] = "GetWithExpiration_read"
    /\ mu' = [mu EXCEPT !.r = @ \ {t}]
    /\ pc' = [pc EXCEPT ![t] = Home(t)]
    /\ call' = [call EXCEPT ![t] = NoCall]
    /\ ret' = [ret EXCEPT ![t] =
                  [NoRet EXCEPT !.val = GetWithExpiration(call[t].k).val,
                                !.exp = GetWithExpiration(call[t].k).exp,
                                !.ok = GetWithExpiration(call[t].k).found]]
    /\ UNCHANGED <<cfgVars, histVars, items, onEvicted, janitor, now, budget,
                   fault>>

\* ----------------------------------------------------------------- Items
\* The map a returned value denotes: one of its own, or c.items.
Deref(r) == IF r.alias THEN items ELSE r.items

ItemsCall(t) ==
    /\ BeginRLocked(t, [NoCall EXCEPT !.op = "Items"], "Items_make")
    /\ UNCHANGED <<cfgVars, histVars, items, onEvicted, janitor, now,
                   fault>>

\* m := make(map[string]Item[T], len(c.items)); now := time.Now().UnixNano()
ItemsMake(t) ==
    /\ ~fault
    /\ pc[t] = "Items_make"
    /\ call' = [call EXCEPT ![t].m = <<>>, ![t].t = now,
                            ![t].todo = DOMAIN items]
    /\ pc' = [pc EXCEPT ![t] = "Items_range"]
    /\ UNCHANGED <<cfgVars, histVars, items, mu, onEvicted, janitor, now, ret,
                   budget, fault>>

\* One iteration of `for k, v := range c.items`, in any order of the keys:
\* an expired entry is skipped, any other is copied, m[k] = v.
ItemsRangeBug(t) ==
    /\ ~fault
    /\ pc[t] = "Items_range"
    /\ \E k \in call[t].todo :
          call' = [call EXCEPT
                      ![t].todo = @ \ {k},
                      ![t].m = IF k \in DOMAIN items
                                  /\ expiredInline(items[k], call[t].t)
                               THEN store(@, k, items[k].Object,
                                          items[k].Expiration, items[k].id)
                               ELSE @]
    /\ UNCHANGED <<cfgVars, histVars, items, mu, onEvicted, janitor, now, pc,
                   ret, budget, fault>>
ItemsRange(t) ==
    /\ ~fault
    /\ pc[t] = "Items_range"
    /\ \E k \in call[t].todo :
          call' = [call EXCEPT
                      ![t].todo = @ \ {k},
                      ![t].m = IF k \in DOMAIN items
                                  /\ ~expiredInline(items[k], call[t].t)
                               THEN store(@, k, items[k].Object,
                                          items[k].Expiration, items[k].id)
                               ELSE @]
    /\ UNCHANGED <<cfgVars, histVars, items, mu, onEvicted, janitor, now, pc,
                   ret, budget, fault>>

\* return m, and the deferred RUnlock.
ItemsReturnBug(t) ==
    /\ ~fault
    /\ pc[t] = "Items_range"
    /\ call[t].todo = {}
    /\ mu' = [mu EXCEPT !.r = @ \ {t}]
    /\ pc' = [pc EXCEPT ![t] = Home(t)]
    /\ call' = [call EXCEPT ![t] = NoCall]
    /\ ret' = [ret EXCEPT ![t] =
                  [NoRet EXCEPT !.ok = TRUE,
                                !.m = [alias |-> TRUE, items |-> <<>>]]]
    /\ UNCHANGED <<cfgVars, histVars, items, onEvicted, janitor, now, budget,
                   fault>>
ItemsReturn(t) ==
    /\ ~fault
    /\ pc[t] = "Items_range"
    /\ call[t].todo = {}
    /\ mu' = [mu EXCEPT !.r = @ \ {t}]
    /\ pc' = [pc EXCEPT ![t] = Home(t)]
    /\ call' = [call EXCEPT ![t] = NoCall]
    /\ ret' = [ret EXCEPT ![t] =
                  [NoRet EXCEPT !.ok = TRUE,
                                !.m = [alias |-> FALSE, items |-> call[t].m]]]
    /\ UNCHANGED <<cfgVars, histVars, items, onEvicted, janitor, now, budget,
                   fault>>

\* The receiver of the map writes to it: delete(m, k) on the map its last
\* Items() returned.
ItemsMapDelete(t, k) ==
    /\ ~fault
    /\ pc[t] = "idle"
    /\ k \in DOMAIN Deref(ret[t].m)
    /\ IF ret[t].m.alias
       THEN /\ items' = remove(items, {k})
            /\ ret' = ret
       ELSE /\ items' = items
            /\ ret' = [ret EXCEPT ![t].m.items = remove(@, {k})]
    /\ UNCHANGED <<cfgVars, histVars, mu, onEvicted, janitor, now, pc, call,
                   budget, fault>>

\* ---------------------------------------------------- Increment, Decrement
IncrementCall(t, k, n) ==
    /\ BeginLocked(t, [NoCall EXCEPT !.op = "Increment", !.k = k, !.x = n],
             "Increment_load")
    /\ UNCHANGED <<cfgVars, histVars, items, onEvicted, janitor, now,
                   fault>>

\* v, found := c.items[k]; if !found || v.Expired() { return error }
IncrementLoad(t) ==
    /\ ~fault
    /\ pc[t] = "Increment_load"
    /\ IF call[t].k \notin DOMAIN items \/ Expired(items[call[t].k], now)
       THEN /\ mu' = Unlocked
            /\ Return(t, 0, FALSE, "KeyNotFound")
       ELSE /\ pc' = [pc EXCEPT ![t] = "Increment_store"]
            /\ call' = [call EXCEPT ![t].v = items[call[t].k].Object,
                                    ![t].vexp = items[call[t].k].Expiration,
                                    ![t].id = items[call[t].k].id]
            /\ UNCHANGED <<mu, ret>>
    /\ UNCHANGED <<cfgVars, histVars, items, onEvicted, janitor, now, budget,
                   fault>>

\* nv := v.Object + n; v.Object = nv; c.items[k] = v; return &nv, nil
IncrementStoreBug(t) ==
    /\ ~fault
    /\ pc[t] = "Increment_store"
    /\ LET nv == Wrap(call[t].v + call[t].x)
       IN  /\ items' = store(items, call[t].k, nv, call[t].vexp, call[t].id)
           /\ Touch(call[t].k, "Increment", nv, 0, now)
           /\ Return(t, call[t].v, TRUE, Nil)
    /\ oplog' = Append(oplog, [old |-> call[t].v, delta |-> call[t].x])
    /\ mu' = Unlocked
    /\ UNCHANGED <<cfgVars, onEvicted, janitor, now, budget, fault, nextId,
                   removed, called, ncalls>>
IncrementStore(t) ==
    /\ ~fault
    /\ pc[t] = "Increment_store"
    /\ LET nv == Wrap(call[t].v + call[t].x)
       IN  /\ items' = store(items, call[t].k, nv, call[t].vexp, call[t].id)
           /\ Touch(call[t].k, "Increment", nv, 0, now)
           /\ Return(t, nv, TRUE, Nil)
    /\ oplog' = Append(oplog, [old |-> call[t].v, delta |-> call[t].x])
    /\ mu' = Unlocked
    /\ UNCHANGED <<cfgVars, onEvicted, janitor, now, budget, fault, nextId,
                   removed, called, ncalls>>

DecrementCall(t, k, n) ==
    /\ BeginLocked(t, [NoCall EXCEPT !.op = "Decrement", !.k = k, !.x = n],
             "Decrement_load")
    /\ UNCHANGED <<cfgVars, histVars, items, onEvicted, janitor, now,
                   fault>>

DecrementLoad(t) ==
    /\ ~fault
    /\ pc[t] = "Decrement_load"
    /\ IF call[t].k \notin DOMAIN items \/ Expired(items[call[t].k], now)
       THEN /\ mu' = Unlocked
            /\ Return(t, 0, FALSE, "KeyNotFound")
       ELSE /\ pc' = [pc EXCEPT ![t] = "Decrement_store"]
            /\ call' = [call EXCEPT ![t].v = items[call[t].k].Object,
                                    ![t].vexp = items[call[t].k].Expiration,
                                    ![t].id = items[call[t].k].id]
            /\ UNCHANGED <<mu, ret>>
    /\ UNCHANGED <<cfgVars, histVars, items, onEvicted, janitor, now, budget,
                   fault>>

DecrementStoreBug(t) ==
    /\ ~fault
    /\ pc[t] = "Decrement_store"
    /\ LET nv == Wrap(call[t].v - call[t].x)
       IN  /\ items' = store(items, call[t].k, nv,
                             expiration(DefaultExpiration, now), call[t].id)
           /\ Touch(call[t].k, "Decrement", nv, 0, now)
           /\ Return(t, nv, TRUE, Nil)
    /\ oplog' = Append(oplog, [old |-> call[t].v, delta |-> 0 - call[t].x])
    /\ mu' = Unlocked
    /\ UNCHANGED <<cfgVars, onEvicted, janitor, now, budget, fault, nextId,
                   removed, called, ncalls>>
DecrementStore(t) ==
    /\ ~fault
    /\ pc[t] = "Decrement_store"
    /\ LET nv == Wrap(call[t].v - call[t].x)
       IN  /\ items' = store(items, call[t].k, nv, call[t].vexp, call[t].id)
           /\ Touch(call[t].k, "Decrement", nv, 0, now)
           /\ Return(t, nv, TRUE, Nil)
    /\ oplog' = Append(oplog, [old |-> call[t].v, delta |-> 0 - call[t].x])
    /\ mu' = Unlocked
    /\ UNCHANGED <<cfgVars, onEvicted, janitor, now, budget, fault, nextId,
                   removed, called, ncalls>>

\* ------------------------------------------------------------ callbacks
\* A call c.onEvicted(k, v) of the callback read from the field at this
\* moment: a call of a nil func panics.
InvokeBug(k, v, id) ==
    IF onEvicted = Nil
    THEN /\ fault' = TRUE
         /\ UNCHANGED <<called, ncalls>>
    ELSE /\ called' = called \cup {[f |-> onEvicted, key |-> k, value |-> 0,
                                    id |-> id]}
         /\ ncalls' = ncalls + 1
         /\ UNCHANGED fault
Invoke(k, v, id) ==
    IF onEvicted = Nil
    THEN /\ fault' = TRUE
         /\ UNCHANGED <<called, ncalls>>
    ELSE /\ called' = called \cup {[f |-> onEvicted, key |-> k, value |-> v,
                                    id |-> id]}
         /\ ncalls' = ncalls + 1
         /\ UNCHANGED fault

\* ---------------------------------------------------------------- Delete
\* cache.delete: the value, whether the key was stored, and the new map.
deleteBug(k) ==
    IF k \in DOMAIN items
    THEN [v |-> items[k].Object, id |-> items[k].id, found |-> TRUE,
          items |-> items]
    ELSE [v |-> 0, id |-> 0, found |-> FALSE, items |-> items]
delete(k) ==
    IF k \in DOMAIN items
    THEN [v |-> items[k].Object, id |-> items[k].id, found |-> TRUE,
          items |-> remove(items, {k})]
    ELSE [v |-> 0, id |-> 0, found |-> FALSE, items |-> items]

DeleteCall(t, k) ==
    /\ BeginLocked(t, [NoCall EXCEPT !.op = "Delete", !.k = k], "Delete_delete")
    /\ UNCHANGED <<cfgVars, histVars, items, onEvicted, janitor, now,
                   fault>>

\* v, evicted := c.delete(k); c.mu.Unlock()
DeleteDeleteBug(t) ==
    /\ ~fault
    /\ pc[t] = "Delete_delete"
    /\ LET r == delete(call[t].k)
       IN  /\ items' = r.items
           /\ call' = [call EXCEPT ![t].v = r.v, ![t].id = r.id,
                                   ![t].evicted = r.found]
           /\ removed' = IF r.found
                         THEN removed \cup {[key |-> call[t].k, value |-> r.v,
                                             id |-> r.id, by |-> "Delete",
                                             t |-> t, cb |-> onEvicted]}
                         ELSE removed
    /\ Touch(call[t].k, "Delete", 0, 0, now)
    /\ mu' = mu
    /\ pc' = [pc EXCEPT ![t] = "Delete_check"]
    /\ UNCHANGED <<oplog, cfgVars, onEvicted, janitor, now, ret, budget, fault,
                   nextId, called, ncalls>>
DeleteDelete(t) ==
    /\ ~fault
    /\ pc[t] = "Delete_delete"
    /\ LET r == delete(call[t].k)
       IN  /\ items' = r.items
           /\ call' = [call EXCEPT ![t].v = r.v, ![t].id = r.id,
                                   ![t].evicted = r.found]
           /\ removed' = IF r.found
                         THEN removed \cup {[key |-> call[t].k, value |-> r.v,
                                             id |-> r.id, by |-> "Delete",
                                             t |-> t, cb |-> onEvicted]}
                         ELSE removed
    /\ Touch(call[t].k, "Delete", 0, 0, now)
    /\ mu' = Unlocked
    /\ pc' = [pc EXCEPT ![t] = "Delete_check"]
    /\ UNCHANGED <<oplog, cfgVars, onEvicted, janitor, now, ret, budget, fault,
                   nextId, called, ncalls>>

\* if c.onEvicted != nil && evicted
DeleteCheck(t) ==
    /\ ~fault
    /\ pc[t] = "Delete_check"
    /\ IF onEvicted # Nil /\ call[t].evicted
       THEN /\ pc' = [pc EXCEPT ![t] = "Delete_notify"]
            /\ UNCHANGED <<call, ret>>
       ELSE Return(t, 0, TRUE, Nil)
    /\ UNCHANGED <<cfgVars, histVars, items, mu, onEvicted, janitor, now,
                   budget, fault>>

\* c.onEvicted(k, v)
DeleteNotify(t) ==
    /\ ~fault
    /\ pc[t] = "Delete_notify"
    /\ Invoke(call[t].k, call[t].v, call[t].id)
    /\ Return(t, 0, TRUE, Nil)
    /\ UNCHANGED <<oplog, cfgVars, items, mu, onEvicted, janitor, now, budget,
                   nextId, last, removed>>

\* ---------------------------------------------------------- DeleteExpired
\* The orders in which a range over the map can meet the keys of S.
Orders(S) ==
    {s \in [1..Cardinality(S) -> S] : \A i, j \in DOMAIN s : i # j => s[i] # s[j]}

\* now := time.Now().UnixNano()
DeleteExpiredCall(t) ==
    /\ Begin(t, [NoCall EXCEPT !.op = "DeleteExpired", !.t = now],
             "DeleteExpired_Lock")
    /\ UNCHANGED <<cfgVars, histVars, items, mu, onEvicted, janitor, now,
                   fault>>

\* The keys the loop of DeleteExpired deletes, with the clock value it sampled.
expiredKeys(t0) == {k \in DOMAIN items : expiredInline(items[k], t0)}

\* The loop under the lock, and c.mu.Unlock().  The method returns here when
\* evictedItems is empty: the loop after the Unlock has nothing to do.
DeleteExpiredSweepBug(t) ==
    /\ ~fault
    /\ pc[t] = "DeleteExpired_sweep"
    /\ LET dead == expiredKeys(call[t].t)
       IN  /\ items' = remove(items, dead)
           /\ removed' = removed \cup
                 {[key |-> k, value |-> items[k].Object, id |-> items[k].id,
                   by |-> "DeleteExpired", t |-> t, cb |-> onEvicted] :
                  k \in dead}
           /\ IF onEvicted # Nil /\ dead # {}
              THEN /\ \E o \in Orders(dead) :
                         call' = [call EXCEPT ![t].evictedItems =
                                    [i \in DOMAIN o |->
                                       [key |-> o[i],
                                        value |-> items[o[i]].Object,
                                        id |-> items[o[i]].id]]]
                   /\ pc' = [pc EXCEPT ![t] = "DeleteExpired_notify"]
                   /\ UNCHANGED ret
              ELSE Return(t, 0, TRUE, Nil)
    /\ mu' = IF onEvicted # Nil /\ expiredKeys(call[t].t) # {} THEN mu ELSE Unlocked
    /\ UNCHANGED <<oplog, cfgVars, onEvicted, janitor, now, budget, fault, nextId,
                   last, called, ncalls>>
DeleteExpiredSweep(t) ==
    /\ ~fault
    /\ pc[t] = "DeleteExpired_sweep"
    /\ LET dead == expiredKeys(call[t].t)
       IN  /\ items' = remove(items, dead)
           /\ removed' = removed \cup
                 {[key |-> k, value |-> items[k].Object, id |-> items[k].id,
                   by |-> "DeleteExpired", t |-> t, cb |-> onEvicted] :
                  k \in dead}
           /\ IF onEvicted # Nil /\ dead # {}
              THEN /\ \E o \in Orders(dead) :
                         call' = [call EXCEPT ![t].evictedItems =
                                    [i \in DOMAIN o |->
                                       [key |-> o[i],
                                        value |-> items[o[i]].Object,
                                        id |-> items[o[i]].id]]]
                   /\ pc' = [pc EXCEPT ![t] = "DeleteExpired_notify"]
                   /\ UNCHANGED ret
              ELSE Return(t, 0, TRUE, Nil)
    /\ mu' = Unlocked
    /\ UNCHANGED <<oplog, cfgVars, onEvicted, janitor, now, budget, fault, nextId,
                   last, called, ncalls>>

\* One round of: for _, v := range evictedItems { c.onEvicted(v.key, v.value) }
DeleteExpiredNotify(t) ==
    /\ ~fault
    /\ pc[t] = "DeleteExpired_notify"
    /\ LET h == Head(call[t].evictedItems)
       IN  Invoke(h.key, h.value, h.id)
    /\ IF Len(call[t].evictedItems) = 1
       THEN Return(t, 0, TRUE, Nil)
       ELSE /\ call' = [call EXCEPT ![t].evictedItems = Tail(@)]
            /\ UNCHANGED <<pc, ret>>
    /\ UNCHANGED <<oplog, cfgVars, items, mu, onEvicted, janitor, now, budget,
                   nextId, last, removed>>

\* ------------------------------------------------- callbacks that re-enter
\* Callbacks whose body is one call into the store, as the callback of
\* TestOnEvicted: hSet is func(k, v) { c.Set(k, v, NoExpiration) }, hAdd is
\* func(k, v) { c.Add(other, v, NoExpiration) }, hGet is func(k, v) { c.Get(k) }
\* and hDelete is func(k, v) { c.Delete(other) }, other being the other key.
Reentrant == {"hSet", "hAdd", "hGet", "hDelete"}
Other(k) == CHOOSE kk \in Keys : kk # k

\* The callback has returned: Delete returns, DeleteExpired goes on with the
\* next of its evictedItems.  (A Delete made by a callback has nothing left
\* to do after its own callback call, nor has the callback after the Delete.)
Resume(t) ==
    IF call[t].op = "DeleteExpired" /\ Len(call[t].evictedItems) > 1
    THEN /\ call' = [call EXCEPT ![t].evictedItems = Tail(@)]
         /\ pc' = [pc EXCEPT ![t] = "DeleteExpired_notify"]
         /\ UNCHANGED ret
    ELSE Return(t, 0, TRUE, Nil)

\* c.onEvicted(k, v): a nil func panics, a callback that re-enters starts its
\* body, any other callback returns at once.
Enter(t, k, v, id) ==
    IF onEvicted = Nil
    THEN /\ fault' = TRUE
         /\ UNCHANGED <<called, ncalls, pc, call, ret>>
    ELSE /\ called' = called \cup {[f |-> onEvicted, key |-> k, value |-> v,
                                    id |-> id]}
         /\ ncalls' = ncalls + 1
         /\ UNCHANGED fault
         /\ IF onEvicted \in Reentrant
            THEN /\ call' = [call EXCEPT ![t].f = onEvicted, ![t].ck = k,
                                         ![t].cv = v, ![t].cid = id]
                 /\ pc' = [pc EXCEPT ![t] = "cb_Lock"]
                 /\ UNCHANGED ret
            ELSE Resume(t)

\* Delete: c.onEvicted(k, v)
DeleteCallback(t) ==
    /\ ~fault
    /\ pc[t] = "Delete_notify"
    /\ Enter(t, call[t].k, call[t].v, call[t].id)
    /\ UNCHANGED <<oplog, cfgVars, items, mu, onEvicted, janitor, now, budget,
                   nextId, last, removed>>

\* DeleteExpired: one round of the loop over evictedItems.
DeleteExpiredCallback(t) ==
    /\ ~fault
    /\ pc[t] = "DeleteExpired_notify"
    /\ LET h == Head(call[t].evictedItems)
       IN  Enter(t, h.key, h.value, h.id)
    /\ UNCHANGED <<oplog, cfgVars, items, mu, onEvicted, janitor, now, budget,
                   nextId, last, removed>>

\* The c.mu.Lock() (c.mu.RLock() in Get) of the method the callback calls.
CbLock(t) ==
    /\ ~fault
    /\ pc[t] = "cb_Lock"
    /\ IF call[t].f = "hGet"
       THEN /\ CanRLock(t)
            /\ mu' = [mu EXCEPT !.r = @ \cup {t}]
       ELSE /\ CanLock(t)
            /\ mu' = [mu EXCEPT !.w = t]
    /\ pc' = [pc EXCEPT ![t] = "cb_body"]
    /\ UNCHANGED <<cfgVars, histVars, items, onEvicted, janitor, now, call,
                   ret, budget, fault>>

\* The method the callback calls, under the lock, up to its Unlock.
CbBody(t) ==
    /\ ~fault
    /\ pc[t] = "cb_body"
    /\ LET k == call[t].ck
           k2 == Other(call[t].ck)
           v == call[t].cv
       IN  CASE call[t].f = "hSet" ->
                  /\ items' = store(items, k, v, expiration(NoExpiration, now),
                                    nextId + 1)
                  /\ nextId' = nextId + 1
                  /\ Touch(k, "Callback", v, NoExpiration, now)
                  /\ mu' = Unlocked
                  /\ Resume(t)
                  /\ UNCHANGED removed
             [] call[t].f = "hAdd" ->
                  /\ IF get(k2).found
                     THEN UNCHANGED <<items, nextId, last>>
                     ELSE /\ items' = store(items, k2, v,
                                            expiration(NoExpiration, now),
                                            nextId + 1)
                          /\ nextId' = nextId + 1
                          /\ Touch(k2, "Callback", v, NoExpiration, now)
                  /\ mu' = Unlocked
                  /\ Resume(t)
                  /\ UNCHANGED removed
             [] call[t].f = "hGet" ->
                  /\ mu' = [mu EXCEPT !.r = @ \ {t}]
                  /\ Resume(t)
                  /\ UNCHANGED <<items, nextId, last, removed>>
             [] call[t].f = "hDelete" ->
                  LET r == delete(k2)
                  IN  /\ items' = r.items
                      /\ removed' =
                            IF r.found
                            THEN removed \cup {[key |-> k2, value |-> r.v,
                                                id |-> r.id, by |-> "Delete",
                                                t |-> t, cb |-> onEvicted]}
                            ELSE removed
                      /\ Touch(k2, "Delete", 0, 0, now)
                      /\ mu' = Unlocked
                      /\ IF r.found
                         THEN /\ call' = [call EXCEPT ![t].ck = k2,
                                                      ![t].cv = r.v,
                                                      ![t].cid = r.id]
                              /\ pc' = [pc EXCEPT ![t] = "cb_check"]
                              /\ UNCHANGED ret
                         ELSE Resume(t)
                      /\ UNCHANGED nextId
    /\ UNCHANGED <<oplog, cfgVars, onEvicted, janitor, now, budget, fault,
                   called, ncalls>>

\* The Delete a callback made: if c.onEvicted != nil && evicted
CbCheck(t) ==
    /\ ~fault
    /\ pc[t] = "cb_check"
    /\ IF onEvicted # Nil
       THEN /\ pc' = [pc EXCEPT ![t] = "cb_notify"]
            /\ UNCHANGED <<call, ret>>
       ELSE Resume(t)
    /\ UNCHANGED <<cfgVars, histVars, items, mu, onEvicted, janitor, now,
                   budget, fault>>

\* The Delete a callback made: c.onEvicted(k, v)
CbNotify(t) ==
    /\ ~fault
    /\ pc[t] = "cb_notify"
    /\ Enter(t, call[t].ck, call[t].cv, call[t].cid)
    /\ UNCHANGED <<oplog, cfgVars, items, mu, onEvicted, janitor, now, budget,
                   nextId, last, removed>>

\* ------------------------------------------------------------- OnEvicted
OnEvictedCall(t, f) ==
    /\ BeginLocked(t, [NoCall EXCEPT !.op = "OnEvicted", !.f = f], "OnEvicted_store")
    /\ UNCHANGED <<cfgVars, histVars, items, onEvicted, janitor, now,
                   fault>>

\* c.onEvicted = f; c.mu.Unlock()
OnEvictedStore(t) ==
    /\ ~fault
    /\ pc[t] = "OnEvicted_store"
    /\ onEvicted' = call[t].f
    /\ mu' = Unlocked
    /\ Return(t, 0, TRUE, Nil)
    /\ UNCHANGED <<cfgVars, histVars, items, janitor, now, budget, fault>>

\* ------------------------------------------------------------- ItemCount
\* len(c.items): expired entries that no sweep has removed are counted.
ItemCount == Cardinality(DOMAIN items)

ItemCountCall(t) ==
    /\ BeginRLocked(t, [NoCall EXCEPT !.op = "ItemCount"], "ItemCount_read")
    /\ UNCHANGED <<cfgVars, histVars, items, onEvicted, janitor, now,
                   fault>>

\* n := len(c.items); c.mu.RUnlock(); return n
ItemCountRead(t) ==
    /\ ~fault
    /\ pc[t] = "ItemCount_read"
    /\ mu' = [mu EXCEPT !.r = @ \ {t}]
    /\ Return(t, ItemCount, TRUE, Nil)
    /\ UNCHANGED <<cfgVars, histVars, items, onEvicted, janitor, now, budget,
                   fault>>

\* ----------------------------------------------------------------- Flush
FlushCall(t) ==
    /\ BeginLocked(t, [NoCall EXCEPT !.op = "Flush"], "Flush_clear")
    /\ UNCHANGED <<cfgVars, histVars, items, onEvicted, janitor, now,
                   fault>>

\* c.items = map[string]Item[T]{}; c.mu.Unlock()
FlushClearBug(t) ==
    /\ ~fault
    /\ pc[t] = "Flush_clear"
    /\ items' = <<>>
    /\ last' = [k \in Keys |-> [by |-> "Flush", x |-> 0, d |-> 0, t |-> now]]
    /\ called' = called \cup {[f |-> onEvicted, key |-> k,
                               value |-> items[k].Object, id |-> items[k].id] :
                              k \in DOMAIN items}
    /\ ncalls' = ncalls + Cardinality(DOMAIN items)
    /\ mu' = Unlocked
    /\ Return(t, 0, TRUE, Nil)
    /\ UNCHANGED <<oplog, cfgVars, onEvicted, janitor, now, budget, fault, nextId,
                   removed>>
FlushClear(t) ==
    /\ ~fault
    /\ pc[t] = "Flush_clear"
    /\ items' = <<>>
    /\ last' = [k \in Keys |-> [by |-> "Flush", x |-> 0, d |-> 0, t |-> now]]
    /\ mu' = Unlocked
    /\ Return(t, 0, TRUE, Nil)
    /\ UNCHANGED <<oplog, cfgVars, onEvicted, janitor, now, budget, fault, nextId,
                   removed, called, ncalls>>

\* --------------------------------------------------------------- janitor
\* janitor.Run, case <-ticker.C: c.DeleteExpired() (its first statement
\* samples the clock).
JanitorTickBug ==
    /\ ~fault
    /\ pc[JanitorT] = "select"
    /\ janitor.Interval > 0
    /\ janitor.ticker
    /\ janitor' = [janitor EXCEPT !.ticker = FALSE]
    /\ UNCHANGED <<cfgVars, histVars, items, mu, onEvicted, now, pc, call, ret,
                   budget, fault>>
JanitorTick ==
    /\ ~fault
    /\ pc[JanitorT] = "select"
    /\ janitor.Interval > 0
    /\ janitor.ticker
    /\ janitor' = [janitor EXCEPT !.ticker = FALSE]
    /\ call' = [call EXCEPT ![JanitorT] =
                   [NoCall EXCEPT !.op = "DeleteExpired", !.t = now]]
    /\ pc' = [pc EXCEPT ![JanitorT] = "DeleteExpired_Lock"]
    /\ UNCHANGED <<cfgVars, histVars, items, mu, onEvicted, now, ret, budget,
                   fault>>

\* janitor.Run, case <-j.stop: ticker.Stop(); return.  The channel has no
\* buffer: the receive and the finalizer's send c.janitor.stop <- true
\* (stopJanitor) complete together.
StopRecvBug ==
    /\ ~fault
    /\ pc[JanitorT] = "select"
    /\ handle.sending
    /\ handle' = [handle EXCEPT !.sending = FALSE, !.sent = @ + 1]
    /\ UNCHANGED <<T, defaultExpiration, histVars, items, mu, onEvicted,
                   janitor, now, pc, call, ret, budget, fault>>
StopRecv ==
    /\ ~fault
    /\ pc[JanitorT] = "select"
    /\ handle.sending
    /\ handle' = [handle EXCEPT !.sending = FALSE, !.sent = @ + 1]
    /\ pc' = [pc EXCEPT ![JanitorT] = "stopped"]
    /\ UNCHANGED <<T, defaultExpiration, histVars, items, mu, onEvicted,
                   janitor, now, call, ret, budget, fault>>

\* The callers drop the handle and the collector finds it unreachable: no
\* call begins any more, and if newCacheWithJanitor set a finalizer, the
\* finalizer goroutine runs stopJanitor and waits at its send.  A callback
\* that calls into the store holds the handle and keeps it reachable.
Collect ==
    /\ ~fault
    /\ handle.reachable
    /\ onEvicted \notin Reentrant
    /\ handle' = [handle EXCEPT !.reachable = FALSE,
                                !.sending = handle.finalizer]
    /\ budget' = [t \in Callers |-> 0]
    /\ UNCHANGED <<T, defaultExpiration, histVars, items, mu, onEvicted,
                   janitor, now, pc, call, ret, fault>>

\* ---------------------------------------------------------------- clock
\* Time passes; the ticker of a janitor fires every Interval (its channel
\* holds one tick, a tick that finds it full is dropped) until ticker.Stop().
Tick ==
    /\ ~fault
    /\ now < MaxTime
    /\ now' = now + 1
    /\ janitor' = IF /\ janitor.Interval > 0
                     /\ pc[JanitorT] # "stopped"
                     /\ (now + 1) % janitor.Interval = 0
                  THEN [janitor EXCEPT !.ticker = TRUE]
                  ELSE janitor
    /\ UNCHANGED <<cfgVars, histVars, items, mu, onEvicted, pc, call, ret,
                   budget, fault>>

\* The ticker goes on firing after the last clock value the model tells
\* apart: the clock reads MaxTime from then on.
TickOn ==
    /\ ~fault
    /\ now = MaxTime
    /\ janitor.Interval > 0
    /\ pc[JanitorT] # "stopped"
    /\ janitor' = [janitor EXCEPT !.ticker = TRUE]
    /\ UNCHANGED <<cfgVars, histVars, items, mu, onEvicted, now, pc, call, ret,
                   budget, fault>>

\* ------------------------------------------------------------ construction
\* newCache: a default expiration of 0 becomes -1.
newCacheDE(de) == IF de = 0 THEN -1 ELSE de

\* NewNumericFrom[ty](de, ci, m): the state when the constructor has
\* returned; runJanitor starts the janitor only when ci > 0.
NewNumericFromBug(ty, de, ci, m) ==
    /\ T = ty
    /\ defaultExpiration = newCacheDE(de)
    /\ items = m
    /\ mu = Unlocked
    /\ onEvicted = Nil
    /\ janitor = [Interval |-> IF ci >= 0 THEN 1 ELSE 0, ticker |-> FALSE]
    /\ now = 0
    /\ pc = [t \in Threads |->
                IF t = JanitorT /\ ~(ci >= 0) THEN "none" ELSE Home(t)]
    /\ call = [t \in Threads |-> NoCall]
    /\ ret = [t \in Threads |-> NoRet]
    /\ budget = [t \in Callers |-> MaxCalls]
    /\ fault = FALSE
    /\ handle = [ci |-> ci, reachable |-> TRUE, finalizer |-> ci >= 0,
                 sending |-> FALSE, sent |-> 0]
    /\ nextId = Cardinality(DOMAIN m)
    /\ last = [k \in Keys |-> NoLast]
    /\ removed = {}
    /\ called = {}
    /\ ncalls = 0
    /\ oplog = <<>>
NewNumericFrom(ty, de, ci, m) ==
    /\ T = ty
    /\ defaultExpiration = newCacheDE(de)
    /\ items = m
    /\ mu = Unlocked
    /\ onEvicted = Nil
    /\ janitor = [Interval |-> IF ci > 0 THEN ci ELSE 0, ticker |-> FALSE]
    /\ now = 0
    /\ pc = [t \in Threads |->
                IF t = JanitorT /\ ~(ci > 0) THEN "none" ELSE Home(t)]
    /\ call = [t \in Threads |-> NoCall]
    /\ ret = [t \in Threads |-> NoRet]
    /\ budget = [t \in Callers |-> MaxCalls]
    /\ fault = FALSE
    /\ handle = [ci |-> ci, reachable |-> TRUE, finalizer |-> ci > 0,
                 sending |-> FALSE, sent |-> 0]
    /\ nextId = Cardinality(DOMAIN m)
    /\ last = [k \in Keys |-> NoLast]
    /\ removed = {}
    /\ called = {}
    /\ ncalls = 0
    /\ oplog = <<>>

\* The stores of the model hold uint8 values unless said otherwise.
NewFrom(de, ci, m) == NewNumericFrom("uint8", de, ci, m)

\* ------------------------------------------------------------------------
\* Spec: a store made by New(2, ci), with and without a janitor, and one
\* caller that writes, deletes, sweeps and flushes while time passes.
Vals == {1, 2}
Init ==
    \E ci \in {0, 1} : NewFrom(2, ci, <<>>)

Next ==
    \/ \E x \in Vals, d \in Durations : SetCall("c1", "a", x, d)
    \/ \E d \in 1..MaxDur : SetCall("c1", "b", 1, d)
    \/ DeleteCall("c1", "a")
    \/ DeleteExpiredCall("c1")
    \/ FlushCall("c1")
    \/ \E t \in Threads : Lock(t)
    \/ \E t \in Threads : SetStore(t)
    \/ \E t \in Threads : DeleteDelete(t)
    \/ \E t \in Threads : DeleteCheck(t)
    \/ \E t \in Threads : DeleteExpiredSweep(t)
    \/ \E t \in Threads : FlushClear(t)
    \/ JanitorTick
    \/ Tick

Spec == Init /\ [][Next]_vars

\* C1: an entry written by Set(k, x, NoExpiration) is returned by Get(k) as
\* (x, true) at every later moment, whatever the clock shows and whatever
\* DeleteExpired calls and janitor sweeps have run, until another write,
\* Delete or Flush touches k.
C1_NoExpirationStays ==
    \A k \in Keys :
        (last[k].by = "Set" /\ last[k].d = NoExpiration)
            => Get(k) = [val |-> last[k].x, found |-> TRUE]

\* The case of C1: time has passed since the Set and a sweep has removed
\* another, expired entry.
C1_Witness ==
    \E k \in Keys :
        /\ last[k].by = "Set" /\ last[k].d = NoExpiration
        /\ now > last[k].t
        /\ \E r \in removed : r.by = "DeleteExpired" /\ r.id > items[k].id

\* C2: an entry written by Set(k, x, d), d > 0, whose Set read the clock at
\* t is returned by Get(k) as (x, true) while now <= t + d and as not found
\* once now > t + d, swept or not, with or without a janitor.
C2_TTLExact ==
    \A k \in Keys :
        (last[k].by = "Set" /\ last[k].d > 0)
            => Get(k) = IF now <= last[k].t + last[k].d
                        THEN [val |-> last[k].x, found |-> TRUE]
                        ELSE [val |-> 0, found |-> FALSE]

\* The case of C2: the entry has expired and no janitor runs, so it is still
\* in the map.
C2_Witness ==
    \E k \in Keys :
        /\ last[k].by = "Set" /\ last[k].d > 0
        /\ now > last[k].t + last[k].d
        /\ k \in DOMAIN items
        /\ janitor.Interval = 0

\* The same with the expired entry swept by the janitor.
C2_WitnessSwept ==
    \E k \in Keys :
        /\ last[k].by = "Set" /\ last[k].d > 0
        /\ now > last[k].t + last[k].d
        /\ k \notin DOMAIN items
        /\ janitor.Interval > 0

\* The same with the entry still live at the last moment of its life.
C2_WitnessLive ==
    \E k \in Keys :
        /\ last[k].by = "Set" /\ last[k].d > 0
        /\ now = last[k].t + last[k].d
        /\ last[k].t < now

\* ------------------------------------------------------------------------
\* AddSpec: a store made by New(2, ci), with and without a janitor, and one
\* caller that calls Set, Add and Replace on one key while time passes.
AddNext ==
    \/ \E x \in Vals, d \in Durations : SetCall("c1", "a", x, d)
    \/ \E x \in Vals, d \in Durations : AddCall("c1", "a", x, d)
    \/ \E x \in Vals, d \in Durations : ReplaceCall("c1", "a", x, d)
    \/ \E t \in Threads : Lock(t)
    \/ \E t \in Threads : SetStore(t)
    \/ \E t \in Threads : AddGet(t)
    \/ \E t \in Threads : AddSet(t)
    \/ \E t \in Threads : ReplaceGet(t)
    \/ \E t \in Threads : ReplaceSet(t)
    \/ \E t \in Threads : DeleteExpiredSweep(t)
    \/ JanitorTick
    \/ Tick

AddSpec == Init /\ [][AddNext]_vars

\* A live entry, in the words of the specification: the key is stored and its
\* expiration is unset (zero) or not yet in the past.
LiveEntry(k) ==
    k \in DOMAIN items /\ (items[k].Expiration = 0 \/ now <= items[k].Expiration)

\* C3: Add(k, x, d) on a key with no live entry succeeds and stores x (Get
\* then returns x); Add(k, y, d) on a key whose entry is live fails with
\* KeyExists, changes nothing, and Get(k) still returns the stored value.
C3_AddStep ==
    \A t \in Callers :
        /\ (pc[t] = "Add_get" /\ pc'[t] # "Add_get") =>
              IF LiveEntry(call[t].k)
              THEN /\ ret'[t] = [NoRet EXCEPT !.val = 0, !.ok = FALSE, !.err = "KeyExists"]
                   /\ items' = items
                   /\ \E k \in Keys :
                         /\ k = call[t].k
                         /\ Get(k)' = [val |-> items[k].Object, found |-> TRUE]
              ELSE pc'[t] = "Add_set"
        /\ (pc[t] = "Add_set" /\ pc'[t] # "Add_set") =>
              /\ ret'[t] = [NoRet EXCEPT !.val = 0, !.ok = TRUE, !.err = Nil]
              /\ \E k \in Keys :
                    k = call[t].k /\ Get(k)' = [val |-> call[t].x, found |-> TRUE]
C3_Add == [][C3_AddStep]_vars

\* The case of C3: an Add has stored its value and the caller's next Add,
\* of another value, has failed with KeyExists.
C3_Witness ==
    /\ last["a"].by = "Add"
    /\ ret["c1"].err = "KeyExists"
    /\ budget["c1"] = MaxCalls - 2
    /\ Get("a").found

\* C4: Replace(k, x, d) fails with KeyNotFound when k is absent or its entry
\* has expired, swept or not, and changes nothing; on a live entry it
\* succeeds and Get(k) then returns the new value.
C4_ReplaceStep ==
    \A t \in Callers :
        /\ (pc[t] = "Replace_get" /\ pc'[t] # "Replace_get") =>
              IF LiveEntry(call[t].k)
              THEN pc'[t] = "Replace_set"
              ELSE /\ ret'[t] = [NoRet EXCEPT !.val = 0, !.ok = FALSE, !.err = "KeyNotFound"]
                   /\ items' = items
        /\ (pc[t] = "Replace_set" /\ pc'[t] # "Replace_set") =>
              /\ ret'[t] = [NoRet EXCEPT !.val = 0, !.ok = TRUE, !.err = Nil]
              /\ \E k \in Keys :
                    k = call[t].k /\ Get(k)' = [val |-> call[t].x, found |-> TRUE]
C4_Replace == [][C4_ReplaceStep]_vars

\* The case of C4: a Replace has failed on an entry that is expired and still
\* in the map.
C4_Witness ==
    /\ ret["c1"].err = "KeyNotFound"
    /\ "a" \in DOMAIN items
    /\ ~LiveEntry("a")
    /\ last["a"].by = "Set"

\* The same with a Replace that succeeded on a live entry written by Set.
C4_WitnessLive ==
    /\ last["a"].by = "Replace"
    /\ ret["c1"] = [NoRet EXCEPT !.ok = TRUE]
    /\ Get("a").val = last["a"].x
    /\ nextId = 2

\* ------------------------------------------------------------------------
\* AddRaceSpec: two callers race to Add the same key, which holds nothing or
\* an entry that expires while they run; no janitor.
SeedExpiring ==
    [k \in {"a"} |-> [Object |-> 7, Expiration |-> 1, id |-> 1]]

AddRaceInit ==
    \E m \in {<<>>, SeedExpiring} : NewFrom(2, 0, m)

AddRaceNext ==
    \/ AddCall("c1", "a", 1, NoExpiration)
    \/ AddCall("c2", "a", 2, NoExpiration)
    \/ \E t \in Callers : AddGet(t)
    \/ \E t \in Callers : AddSet(t)
    \/ Tick

AddRaceSpec == AddRaceInit /\ [][AddRaceNext]_vars

\* C5: of the callers that Add one key that has no live entry, exactly one
\* succeeds: a caller that found no live entry still finds none when it
\* stores, at most one never-expiring Add is ever stored, the entry holds the
\* winner's value, and a caller fails (with KeyExists) only on a live entry.
C5_AddRaceStep ==
    /\ \A t \in Callers :
          /\ (pc[t] = "Add_set" /\ pc'[t] # "Add_set") =>
                /\ ~LiveEntry(call[t].k)
                /\ last[call[t].k].by # "Add"
                /\ ret'[t].err = Nil
                /\ \E k \in Keys :
                      k = call[t].k /\ Get(k)' = [val |-> call[t].x, found |-> TRUE]
          /\ (pc[t] = "Add_get" /\ pc'[t] = "idle") =>
                /\ LiveEntry(call[t].k)
                /\ ret'[t].err = "KeyExists"
    /\ Cardinality({t \in Callers : ret'[t].ok}) <= 1
    /\ \A t \in Callers :
          ret'[t].ok => Get("a")' = [val |-> IF t = "c1" THEN 1 ELSE 2,
                                     found |-> TRUE]
SeedCounter ==
    [k \in {"a"} |-> [Object |-> 255, Expiration |-> 0, id |-> 1]]

NumInit == NewFrom(2, 0, SeedCounter)

NumNext ==
    \/ \E t \in Callers, n \in {0, 1} : IncrementCall(t, "a", n)
    \/ \E t \in Callers : DecrementCall(t, "a", 1)
    \/ \E t \in Callers : IncrementLoad(t)
    \/ \E t \in Callers : IncrementStore(t)
    \/ \E t \in Callers : DecrementLoad(t)
    \/ \E t \in Callers : DecrementStore(t)

NumSpec == NumInit /\ [][NumNext]_vars

\* The sum of the deltas of the first n applied calls.
RECURSIVE SumDeltas(_)
SumDeltas(n) == IF n = 0 THEN 0 ELSE oplog[n].delta + SumDeltas(n - 1)

\* The value of the entry after the first n applied calls, as the claim
\* computes it: the seed plus the deltas, modulo 2^8.
Expected(n) == (SeedCounter["a"].Object + SumDeltas(n)) % 256

\* C6 as stated: the stored value is the seed plus every applied delta
\* (modulo 2^8), and no two calls observed the same old value.
C6_Original ==
    /\ items["a"].Object = Expected(Len(oplog))
    /\ \A i, j \in DOMAIN oplog : i # j => oplog[i].old # oplog[j].old

\* C6 amended: no update is lost.  The stored value is the seed plus every
\* applied delta (modulo 2^8), and every call observed exactly the value the
\* calls before it (in lock order) left; so two calls observed the same old
\* value only when the deltas applied between them add up to 0 modulo 2^8.
C6_NoLostUpdate ==
    /\ items["a"].Object = Expected(Len(oplog))
    /\ \A i \in DOMAIN oplog : oplog[i].old = Expected(i - 1)
    /\ \A i, j \in DOMAIN oplog :
          (i < j /\ oplog[i].old = oplog[j].old)
              => (SumDeltas(j - 1) - SumDeltas(i - 1)) % 256 = 0

\* The case of C6: both callers have applied two updates each, the counter
\* has wrapped around, and two of the calls observed the same old value.
C6_Witness ==
    /\ Len(oplog) = 2 * MaxCalls
    /\ \A t \in Callers : pc[t] = "idle" /\ budget[t] = 0
    /\ \E i \in DOMAIN oplog : oplog[i].old = 255 /\ oplog[i].delta = 1
    /\ \E i, j \in DOMAIN oplog : i < j /\ oplog[i].old = oplog[j].old

\* ------------------------------------------------------------------------
\* EvictSpec: a store seeded with an entry that expires, a janitor, and two
\* callers: c1 registers a callback and deletes, c2 deletes, sweeps and adds.
SeedTwo ==
    [k \in Keys |-> [Object |-> IF k = "a" THEN 7 ELSE 8, Expiration |-> 1,
                     id |-> IF k = "a" THEN 1 ELSE 2]]
EvictInit == NewFrom(2, 1, SeedTwo)

EvictNext ==
    \/ OnEvictedCall("c1", "f")
    \/ \E t \in Callers : DeleteCall(t, "a")
    \/ DeleteExpiredCall("c1")
    \/ AddCall("c2", "a", 2, 1)
    \/ \E t \in Threads : Lock(t)
    \/ \E t \in Threads : OnEvictedStore(t)
    \/ \E t \in Threads : DeleteDelete(t)
    \/ \E t \in Threads : DeleteCheck(t)
    \/ \E t \in Threads : DeleteNotify(t)
    \/ \E t \in Threads : DeleteExpiredSweep(t)
    \/ \E t \in Threads : DeleteExpiredNotify(t)
    \/ \E t \in Threads : AddGet(t)
    \/ \E t \in Threads : AddSet(t)
    \/ JanitorTick
    \/ Tick

EvictSpec == EvictInit /\ [][EvictNext]_vars

\* The goroutines that have removed the entry id and have not yet called the
\* callback for it.
Holders(id) ==
    {t \in Threads :
        \/ /\ pc[t] \in {"Delete_check", "Delete_notify"}
           /\ call[t].evicted
           /\ call[t].id = id
        \/ /\ pc[t] = "DeleteExpired_notify"
           /\ \E i \in DOMAIN call[t].evictedItems :
                 call[t].evictedItems[i].id = id}

\* The callback invocations made for the entry id.
Calls(id) == {c \in called : c.id = id}

\* C7: an entry removed by Delete or DeleteExpired while a callback is
\* registered gets exactly one invocation of that callback, with the
\* entry's key and the value it held when it was removed: none while the
\* remover still holds it, exactly that one once the remover has called,
\* and no invocation is ever repeated.
C7_EvictedOnce ==
    /\ ncalls = Cardinality(called)
    /\ \A r \in removed :
          r.cb # Nil =>
              IF Holders(r.id) # {}
              THEN Calls(r.id) = {}
              ELSE Calls(r.id) = {[f |-> r.cb, key |-> r.key,
                                   value |-> r.value, id |-> r.id]}

\* The case of C7: with the callback registered, one entry was removed by a
\* Delete and another by a sweep, and both removers have returned.
C7_Witness ==
    /\ \E r \in removed : r.by = "Delete" /\ r.cb = "f" /\ Holders(r.id) = {}
    /\ \E r \in removed :
          r.by = "DeleteExpired" /\ r.cb = "f" /\ Holders(r.id) = {}
    /\ ncalls = 2

\* C9: when Deletes of one key and sweeps race on an entry, the entry is
\* removed by exactly one of them, one goroutine at most holds it for the
\* callback, and the callback is invoked at most once for it, after which
\* nobody holds it.
C9_RemovedOnce ==
    /\ \A id \in 1..nextId :
          /\ Cardinality({r \in removed : r.id = id}) <= 1
          /\ Cardinality(Holders(id)) <= 1
          /\ Cardinality(Calls(id)) <= 1
          /\ Holders(id) # {} => \E r \in removed : r.id = id /\ r.t \in Holders(id)
          /\ Calls(id) # {} => Holders(id) = {}
    /\ ncalls <= Cardinality(removed)

\* The case of C9: a Delete removed the entry of "a" and called the callback,
\* the Delete of the other caller found nothing to remove, and a sweep of the
\* janitor that ran against them is past its loop.
C9_Witness ==
    \E r \in removed :
        /\ r.key = "a" /\ r.by = "Delete" /\ r.id = 1
        /\ Cardinality(Calls(r.id)) = 1
        /\ \E t \in Callers \ {r.t} :
              /\ pc[t] = "Delete_check"
              /\ call[t].k = "a"
              /\ ~call[t].evicted
        /\ pc[JanitorT] = "DeleteExpired_notify"

\* The goroutines that hold the entry id for the callback after the step.
HoldersAfter(id) ==
    {t \in Threads :
        \/ /\ pc'[t] \in {"Delete_check", "Delete_notify"}
           /\ call'[t].evicted
           /\ call'[t].id = id
        \/ /\ pc'[t] = "DeleteExpired_notify"
           /\ \E i \in DOMAIN call'[t].evictedItems :
                 call'[t].evictedItems[i].id = id}

\* A step takes the expired entry of k out of the map while a callback is
\* registered.
ExpiredLeaves(k) ==
    /\ onEvicted # Nil
    /\ k \in DOMAIN items
    /\ expiredInline(items[k], now)
    /\ k \notin DOMAIN items' \/ items'[k].id # items[k].id

\* C10 as stated: with a janitor and a callback, every entry that expires
\* gets the callback exactly once: whatever takes an expired entry out of
\* the map hands it to the callback, and no entry gets two invocations.
C10_OriginalStep ==
    \A k \in Keys : ExpiredLeaves(k) =>
        \E id \in 1..nextId : id = items[k].id /\ HoldersAfter(id) # {}
C10_ExpiredStep ==
    \A k \in Keys : ExpiredLeaves(k) =>
        \E id \in 1..nextId :
            /\ id = items[k].id
            /\ \/ /\ HoldersAfter(id) # {}
                  /\ \E r \in removed' : r.id = id /\ r.cb # Nil
               \/ /\ \E t \in Callers :
                        \/ pc[t] \in {"Add_set", "Set_store"} /\ call[t].k = k
                        \/ pc[t] = "Flush_clear"
                  /\ HoldersAfter(id) = {}
                  /\ \A c \in called' : c.id # id
C10_ExpiredInv ==
    /\ \A id \in 1..nextId : Cardinality(Calls(id)) <= 1
    /\ \A c \in called : \E r \in removed : r.id = c.id
    /\ \A r \in removed :
          (r.by = "DeleteExpired" /\ r.cb # Nil /\ Holders(r.id) = {}) =>
              Calls(r.id) = {[f |-> r.cb, key |-> r.key, value |-> r.value,
                              id |-> r.id]}
OverwriteInit == NewFrom(2, 1, SeedExpiring)

OverwriteNext ==
    \/ OnEvictedCall("c1", "f")
    \/ SetCall("c2", "a", 1, 1)
    \/ SetDefaultCall("c2", "a", 1)
    \/ AddCall("c2", "a", 1, 1)
    \/ ReplaceCall("c2", "a", 1, 1)
    \/ IncrementCall("c2", "a", 1)
    \/ DecrementCall("c2", "a", 1)
    \/ FlushCall("c2")
    \/ DeleteCall("c2", "a")
    \/ \E t \in Threads : Lock(t)
    \/ \E t \in Threads : OnEvictedStore(t)
    \/ \E t \in Threads : SetStore(t)
    \/ \E t \in Threads : AddGet(t)
    \/ \E t \in Threads : AddSet(t)
    \/ \E t \in Threads : ReplaceGet(t)
    \/ \E t \in Threads : ReplaceSet(t)
    \/ \E t \in Threads : IncrementLoad(t)
    \/ \E t \in Threads : IncrementStore(t)
    \/ \E t \in Threads : DecrementLoad(t)
    \/ \E t \in Threads : DecrementStore(t)
    \/ \E t \in Threads : FlushClear(t)
    \/ \E t \in Threads : DeleteDelete(t)
    \/ \E t \in Threads : DeleteCheck(t)
    \/ \E t \in Threads : DeleteNotify(t)
    \/ \E t \in Threads : DeleteExpiredSweep(t)
    \/ \E t \in Threads : DeleteExpiredNotify(t)
    \/ JanitorTick
    \/ Tick

OverwriteSpec == OverwriteInit /\ [][OverwriteNext]_vars

SilentOps ==
    {"Set", "SetDefault", "Add", "Replace", "Increment", "Decrement", "Flush"}

\* The method the goroutine t runs in the step, when t is the one that moves.
Moves(t) == pc'[t] # pc[t] \/ call'[t] # call[t]
OpOf(t) == IF pc[t] \in {"idle", "select"} THEN call'[t].op ELSE call[t].op

\* C8: no step of Set, SetDefault, Add, Replace, Increment, Decrement or
\* Flush invokes the eviction callback, whether or not it writes over or
\* drops an entry: the invocations stay as they were, and there are never
\* more invocations than entries removed by Delete and DeleteExpired.
C8_SilentStep ==
    /\ \A t \in Threads :
          (Moves(t) /\ OpOf(t) \in SilentOps) =>
              (called' = called /\ ncalls' = ncalls)
    /\ ncalls' <= Cardinality(removed')
C8_Silent == [][C8_SilentStep]_vars

\* The case of C8: with the callback registered, a Set wrote over the seeded
\* entry and a Flush then dropped the new one, and the callback was never
\* invoked.
C8_Witness ==
    /\ onEvicted = "f"
    /\ last["a"].by = "Flush"
    /\ nextId = 2
    /\ items = <<>>
    /\ removed = {}
    /\ ncalls = 0
    /\ budget["c2"] = 0

\* ------------------------------------------------------------------------
\* SweepSpec: a store with a janitor at interval 1 or 2, seeded with an entry
\* that expires; one caller registers a callback, writes, adds and deletes;
\* every goroutine that can take a step eventually takes one, and the clock
\* and the ticker go on.
SweepInit == \E ci \in {1, 2} : NewFrom(2, ci, SeedExpiring)

SweepNext ==
    \/ OnEvictedCall("c1", "f")
    \/ SetCall("c1", "a", 1, 1)
    \/ AddCall("c1", "b", 2, 1)
    \/ DeleteCall("c1", "a")
    \/ \E t \in Threads : Lock(t)
    \/ \E t \in Threads : OnEvictedStore(t)
    \/ \E t \in Threads : SetStore(t)
    \/ \E t \in Threads : AddGet(t)
    \/ \E t \in Threads : AddSet(t)
    \/ \E t \in Threads : DeleteDelete(t)
    \/ \E t \in Threads : DeleteCheck(t)
    \/ \E t \in Threads : DeleteNotify(t)
    \/ \E t \in Threads : DeleteExpiredSweep(t)
    \/ \E t \in Threads : DeleteExpiredNotify(t)
    \/ JanitorTick
    \/ Tick
    \/ TickOn

\* The steps of the goroutine t inside a call, and the janitor's receive.
Step(t) ==
    \/ Lock(t)
    \/ OnEvictedStore(t)
    \/ SetStore(t)
    \/ AddGet(t)
    \/ AddSet(t)
    \/ DeleteDelete(t)
    \/ DeleteCheck(t)
    \/ DeleteNotify(t)
    \/ DeleteExpiredSweep(t)
    \/ DeleteExpiredNotify(t)
    \/ (t = JanitorT /\ JanitorTick)

SweepFair ==
    /\ \A t \in Threads : WF_vars(Step(t))
    /\ WF_vars(Tick)
    /\ WF_vars(TickOn)

SweepSpec == SweepInit /\ [][SweepNext]_vars /\ SweepFair

\* The entry written as the id-th is in the map; it is in the map and its
\* expiration has passed.
Stored(id) == \E k \in DOMAIN items : items[k].id = id
Stale(id) ==
    \E k \in DOMAIN items : items[k].id = id /\ expiredInline(items[k], now)

\* C11: with a janitor at interval i > 0, every entry that is in the map
\* with its expiration passed is eventually out of the map, and within a
\* bounded number of ticks: a sweep of the janitor that read the clock at t0
\* leaves no entry in the map whose expiration had passed at t0, so the
\* first sweep that starts after the expiry removes the entry.
C11_SweepStep ==
    (pc[JanitorT] = "DeleteExpired_sweep" /\ pc'[JanitorT] # pc[JanitorT]) =>
        \A k \in DOMAIN items' : ~expiredInline(items'[k], call[JanitorT].t)
C11_Swept ==
    /\ \A id \in 1..(1 + MaxCalls) : Stale(id) ~> ~Stored(id)
    /\ [][C11_SweepStep]_vars

\* The case of C11: the janitor has removed two expired entries, the seeded
\* one and one a caller wrote, and is back at its select.
C11_Witness ==
    /\ pc[JanitorT] = "select"
    /\ \E r \in removed : r.by = "DeleteExpired" /\ r.t = JanitorT /\ r.id = 1
    /\ \E r \in removed : r.by = "DeleteExpired" /\ r.t = JanitorT /\ r.id > 1

\* ------------------------------------------------------------------------
\* C12: a goroutine that is about to call or is calling the eviction
\* callback (in Delete, in a caller's DeleteExpired or in a sweep of the
\* janitor) holds the store's lock neither as the writer nor as a reader.
C12_CallbackUnlocked ==
    \A t \in Threads :
        pc[t] \in {"Delete_notify", "DeleteExpired_notify"} =>
            (mu.w # t /\ t \notin mu.r)

\* The case of C12: a caller is at the callback call of its Delete and the
\* janitor at the callback call of its sweep, while the other caller holds
\* the lock.
C12_Witness ==
    /\ \E t \in Callers : pc[t] = "Delete_notify"
    /\ pc[JanitorT] = "DeleteExpired_notify"
    /\ mu.w \in Callers
    /\ pc[mu.w] \notin {"Delete_notify", "DeleteExpired_notify"}

\* ------------------------------------------------------------------------
\* ReentrySpec: a store with a janitor and two expiring entries; c1 registers
\* a callback that calls back into the store and deletes, the janitor
\* sweeps; every goroutine that can take a step eventually takes one.
ReentryInit == NewFrom(2, 1, SeedTwo)

ReentryNext ==
    \/ \E h \in Reentrant : OnEvictedCall("c1", h)
    \/ DeleteCall("c1", "a")
    \/ \E t \in Threads : Lock(t)
    \/ \E t \in Threads : OnEvictedStore(t)
    \/ \E t \in Threads : DeleteDelete(t)
    \/ \E t \in Threads : DeleteCheck(t)
    \/ \E t \in Threads : DeleteCallback(t)
    \/ \E t \in Threads : DeleteExpiredSweep(t)
    \/ \E t \in Threads : DeleteExpiredCallback(t)
    \/ \E t \in Threads : CbLock(t)
    \/ \E t \in Threads : CbBody(t)
    \/ \E t \in Threads : CbCheck(t)
    \/ \E t \in Threads : CbNotify(t)
    \/ JanitorTick
    \/ Tick

ReentryStep(t) ==
    \/ Lock(t)
    \/ OnEvictedStore(t)
    \/ DeleteDelete(t)
    \/ DeleteCheck(t)
    \/ DeleteCallback(t)
    \/ DeleteExpiredSweep(t)
    \/ DeleteExpiredCallback(t)
    \/ CbLock(t)
    \/ CbBody(t)
    \/ CbCheck(t)
    \/ CbNotify(t)
    \/ (t = JanitorT /\ JanitorTick)

ReentrySpec ==
    /\ ReentryInit
    /\ [][ReentryNext]_vars
    /\ \A t \in Threads : WF_vars(ReentryStep(t))

CbPcs == {"cb_Lock", "cb_body", "cb_check", "cb_notify"}

\* C13: a callback that calls Set, Add, Get or Delete of the store from
\* within Delete or DeleteExpired does not deadlock: the goroutine never
\* waits for a lock it holds itself, and every call in which the callback
\* runs returns; and what the callback wrote is what Get returns from then
\* on, the outer call having returned or not, until another write, Delete or
\* Flush touches the key.
C13_Inv ==
    /\ \A t \in Threads : pc[t] = "cb_Lock" => (mu.w # t /\ t \notin mu.r)
    /\ \A k \in Keys :
          last[k].by = "Callback" => Get(k) = [val |-> last[k].x, found |-> TRUE]
C13_Reentrant ==
    /\ []C13_Inv
    /\ \A t \in Threads : (pc[t] \in CbPcs) ~> (pc[t] = Home(t))

\* The case of C13: the Delete of c1 has returned after its callback wrote
\* the evicted key back, and the janitor's sweep has returned after its
\* callback ran too.
C13_Witness ==
    /\ pc["c1"] = "idle" /\ pc[JanitorT] = "select"
    /\ \E c \in called : c.f = "hSet" /\ c.key = "a" /\ c.id = 1
    /\ \E c \in called : c.key = "b" /\ c.id = 2
    /\ last["a"].by = "Callback"
    /\ "a" \in DOMAIN items /\ items["a"].Object = 7

\* ------------------------------------------------------------------------
\* UnregisterSpec: a store with a janitor and an entry that expires; c1
\* registers a callback and sets it back to nil while c2 deletes, sweeps and
\* reads.
UnregisterInit == NewFrom(2, 1, SeedExpiring)

UnregisterNext ==
    \/ \E f \in {"f", Nil} : OnEvictedCall("c1", f)
    \/ DeleteCall("c2", "a")
    \/ DeleteExpiredCall("c2")
    \/ GetCall("c2", "a")
    \/ \E t \in Threads : Lock(t)
    \/ \E t \in Threads : OnEvictedStore(t)
    \/ \E t \in Threads : GetRead(t)
    \/ \E t \in Threads : DeleteDelete(t)
    \/ \E t \in Threads : DeleteCheck(t)
    \/ \E t \in Threads : DeleteNotify(t)
    \/ \E t \in Threads : DeleteExpiredSweep(t)
    \/ \E t \in Threads : DeleteExpiredNotify(t)
    \/ JanitorTick
    \/ Tick

UnregisterSpec == UnregisterInit /\ [][UnregisterNext]_vars

\* C14: no interleaving of store operations ends in an uncaught fault: with
\* OnEvicted(nil) running against Delete, DeleteExpired and the janitor's
\* sweeps, no goroutine ever calls a nil callback.
C14_NoFault == ~fault

\* The positions at which the next statement of a goroutine writes the map
\* or the callback slot (or reads them in a method that writes), and those
\* at which it only reads one of them.
WritePcs ==
    {"Set_store", "Add_get", "Add_set", "Replace_get", "Replace_set",
     "Increment_load", "Increment_store", "Decrement_load", "Decrement_store",
     "Delete_delete", "DeleteExpired_sweep", "OnEvicted_store", "Flush_clear"}
ReadPcs == {"Get_read", "Delete_check", "Delete_notify", "DeleteExpired_notify"}

\* C15: every access to the map and to the callback slot is made with the
\* lock held: a goroutine about to write one of them is the writer of the
\* mutex, a goroutine about to read one of them is its writer or one of its
\* readers, in Delete and DeleteExpired as in every other method.
C15_LockedAccess ==
    \A t \in Threads :
        /\ pc[t] \in WritePcs => mu.w = t
        /\ pc[t] \in ReadPcs => (mu.w = t \/ t \in mu.r)

\* ------------------------------------------------------------------------
FailOps == {"Add", "Replace", "Increment", "Decrement"}
CheckPcs == {"Add_get", "Replace_get", "Increment_load", "Decrement_load"}

\* C16: an Add, Replace, Increment or Decrement that fails leaves the store
\* as it was: the step that takes the lock and the step that returns the
\* error change neither the map (keys, values, expirations, an expired and
\* unswept entry of the key included) nor the callback slot, and invoke no
\* callback; and no other goroutine changes the map in between.
C16_FailStep ==
    \A t \in Callers :
        /\ ( /\ Moves(t)
             /\ OpOf(t) \in FailOps
             /\ pc[t] = "idle" \/ ret'[t].err # Nil )
           => ( /\ items' = items
                /\ onEvicted' = onEvicted
                /\ called' = called /\ ncalls' = ncalls
                /\ removed' = removed )
        /\ (pc[t] \in CheckPcs /\ ~Moves(t)) => items' = items
        /\ (pc[t] \in CheckPcs /\ ret'[t].err # Nil) => pc'[t] = "idle"
C16_FailUnchanged == [][C16_FailStep]_vars

\* The case of C16: with a callback registered, a Replace, Increment or
\* Decrement failed on the expired entry no sweep had removed yet, and the
\* entry is still there and no callback was called.
C16_Witness ==
    /\ onEvicted = "f"
    /\ ret["c2"] = [NoRet EXCEPT !.err = "KeyNotFound"]
    /\ pc["c2"] = "idle"
    /\ "a" \in DOMAIN items
    /\ items["a"] = SeedExpiring["a"]
    /\ expiredInline(items["a"], now)
    /\ ncalls = 0

\* ------------------------------------------------------------------------
\* CountSpec: a NumericCache[uint8] or NumericCache[int8] with a janitor, an
\* entry "a" at the largest value of the type that never expires and an
\* entry "b" at the smallest that expires; one caller increments and
\* decrements both while time passes.
MaxT(ty) == IF ty = "uint8" THEN 2 ^ Bits - 1 ELSE 2 ^ (Bits - 1) - 1
MinT(ty) == IF ty = "uint8" THEN 0 ELSE 0 - 2 ^ (Bits - 1)
SeedEdges(ty) ==
    [k \in Keys |-> [Object |-> IF k = "a" THEN MaxT(ty) ELSE MinT(ty),
                     Expiration |-> IF k = "a" THEN 0 ELSE 1,
                     id |-> IF k = "a" THEN 1 ELSE 2]]
CountInit ==
    \E ty \in {"uint8", "int8"} : NewNumericFrom(ty, 2, 1, SeedEdges(ty))

CountNext ==
    \/ \E k \in Keys : IncrementCall("c1", k, 1)
    \/ \E k \in Keys : DecrementCall("c1", k, 1)
    \/ \E t \in Threads : Lock(t)
    \/ \E t \in Threads : IncrementLoad(t)
    \/ \E t \in Threads : IncrementStore(t)
    \/ \E t \in Threads : DecrementLoad(t)
    \/ \E t \in Threads : DecrementStore(t)
    \/ \E t \in Threads : DeleteExpiredSweep(t)
    \/ JanitorTick
    \/ Tick

CountSpec == CountInit /\ [][CountNext]_vars

\* C17: Increment and Decrement return the "not found" error exactly when
\* the key has no live entry (absent, or expired whether swept or not), and
\* go on to store and return without error on every live entry.
C17_FoundStep ==
    \A t \in Callers :
        /\ (pc[t] \in {"Increment_load", "Decrement_load"} /\ Moves(t)) =>
              IF LiveEntry(call[t].k)
              THEN /\ pc'[t] \in {"Increment_store", "Decrement_store"}
                   /\ ret'[t].err = Nil
              ELSE /\ pc'[t] = "idle"
                   /\ ret'[t] = [NoRet EXCEPT !.val = 0, !.ok = FALSE, !.err = "KeyNotFound"]
        /\ (pc[t] \in {"Increment_store", "Decrement_store"} /\ Moves(t)) =>
              (pc'[t] = "idle" /\ ret'[t].ok /\ ret'[t].err = Nil)
C17_Found == [][C17_FoundStep]_vars

\* The case of C17: the caller's last call failed on the expired entry of
\* "b" that no sweep had removed, after a call on the live "a" succeeded.
C17_Witness ==
    /\ ret["c1"].err = "KeyNotFound"
    /\ "b" \in DOMAIN items /\ expiredInline(items["b"], now)
    /\ last["b"].by = "none"
    /\ last["a"].by \in {"Increment", "Decrement"}
    /\ budget["c1"] = 0

\* C18: on a live entry holding v, Increment(k, n) returns v + n and
\* Decrement(k, n) returns v - n, in the arithmetic of the value type, and
\* the value returned is the value stored: Get(k) returns it as long as the
\* entry is live.
InT(x) == MinT(T) <= x /\ x <= MaxT(T)
C18_ReturnStep ==
    \A t \in Callers, k \in Keys :
        ( /\ pc[t] \in {"Increment_store", "Decrement_store"}
          /\ Moves(t)
          /\ call[t].k = k ) =>
            LET v == items[k].Object
                exact == IF pc[t] = "Increment_store" THEN v + call[t].x
                         ELSE v - call[t].x
            IN  /\ InT(ret'[t].val)
                /\ (ret'[t].val - exact) % (2 ^ Bits) = 0
                /\ items'[k].Object = ret'[t].val
                /\ items'[k].Expiration = items[k].Expiration
                /\ LiveEntry(k)' => Get(k)' = [val |-> ret'[t].val, found |-> TRUE]
C18_Return == [][C18_ReturnStep]_vars

\* The case of C18: an Increment and a Decrement by 1 on "a" have both
\* returned, the last one the value the entry holds now.
C18_Witness ==
    /\ Len(oplog) = 2
    /\ oplog[1].delta + oplog[2].delta = 0
    /\ pc["c1"] = "idle"
    /\ ret["c1"].ok
    /\ ret["c1"].val = items["a"].Object
    /\ ret["c1"].val = MaxT(T)

\* C19: Increment and Decrement wrap modulo 2^Bits and never fail or
\* saturate on overflow: the store step always returns without error a
\* value of the type; an int8 entry at 127 incremented by 1 becomes -128 and
\* one at -128 decremented by 1 becomes 127; a uint8 entry at 255
\* incremented by 1 becomes 0 and one at 0 decremented by 1 becomes 255.
C19_WrapStep ==
    \A t \in Callers, k \in Keys :
        ( /\ pc[t] \in {"Increment_store", "Decrement_store"}
          /\ Moves(t)
          /\ call[t].k = k ) =>
            LET v == items[k].Object
                nv == items'[k].Object
                inc == pc[t] = "Increment_store"
                n == call[t].x
            IN  /\ ret'[t].ok /\ ret'[t].err = Nil
                /\ InT(nv)
                /\ (T = "int8" /\ v = 127 /\ inc /\ n = 1) => nv = -128
                /\ (T = "int8" /\ v = -128 /\ ~inc /\ n = 1) => nv = 127
                /\ (T = "uint8" /\ v = 255 /\ inc /\ n = 1) => nv = 0
                /\ (T = "uint8" /\ v = 0 /\ ~inc /\ n = 1) => nv = 255
                /\ (InT(v + n) /\ inc) => nv = v + n
                /\ (InT(v - n) /\ ~inc) => nv = v - n
C19_Wrap == [][C19_WrapStep]_vars

\* The case of C19: the int8 entry at 127 was incremented by 1 and holds
\* -128, which the Increment returned.
C19_Witness ==
    /\ T = "int8"
    /\ oplog = <<[old |-> 127, delta |-> 1]>>
    /\ items["a"].Object = -128
    /\ ret["c1"] = [NoRet EXCEPT !.val = -128, !.ok = TRUE]

\* The same for uint8: the entry at 0 was decremented by 1 and holds 255, and
\* the entry at 255 was incremented by 1 and holds 0.
C19_WitnessUint ==
    /\ T = "uint8"
    /\ items["a"].Object = 0
    /\ "b" \in DOMAIN items /\ items["b"].Object = 255
    /\ Len(oplog) = 2

\* ------------------------------------------------------------------------
\* FlushSpec: a store with a janitor and two entries; c1 registers a
\* callback and flushes while c2 counts, reads and writes.
FlushInit == NewFrom(2, 1, SeedTwo)

FlushNext ==
    \/ OnEvictedCall("c1", "f")
    \/ FlushCall("c1")
    \/ ItemCountCall("c2")
    \/ \E k \in Keys : GetCall("c2", k)
    \/ SetCall("c2", "a", 1, NoExpiration)
    \/ \E t \in Threads : Lock(t)
    \/ \E t \in Threads : OnEvictedStore(t)
    \/ \E t \in Threads : FlushClear(t)
    \/ \E t \in Threads : ItemCountRead(t)
    \/ \E t \in Threads : GetRead(t)
    \/ \E t \in Threads : SetStore(t)
    \/ \E t \in Threads : DeleteExpiredSweep(t)
    \/ \E t \in Threads : DeleteExpiredNotify(t)
    \/ JanitorTick
    \/ Tick

FlushSpec == FlushInit /\ [][FlushNext]_vars

\* Flush was the last operation that touched the key (every key).
Flushed(k) == last[k].by = "Flush"
AllFlushed == \A k \in Keys : Flushed(k)

\* C20: when Flush returns the map is empty: ItemCount is 0 and Get finds no
\* key; this stays so for every key until it is written again, ItemCount and
\* Get calls that run then return 0 and not-found; and the Flush step
\* invokes no callback, whatever entries it cleared.
C20_FlushStep ==
    /\ \A t \in Callers :
          (pc[t] = "Flush_clear" /\ Moves(t)) =>
              /\ ItemCount' = 0
              /\ \A k \in Keys : ~Get(k)'.found
              /\ called' = called /\ ncalls' = ncalls
    /\ \A t \in Callers :
          (pc[t] = "ItemCount_read" /\ Moves(t) /\ AllFlushed) => ret'[t].val = 0
    /\ \A t \in Callers, k \in Keys :
          (pc[t] = "Get_read" /\ Moves(t) /\ call[t].k = k /\ Flushed(k)) =>
              (~ret'[t].ok /\ ret'[t].val = 0)
C20_FlushInv ==
    /\ \A k \in Keys : Flushed(k) => (k \notin DOMAIN items /\ ~Get(k).found)
    /\ AllFlushed => ItemCount = 0
C20_Flush == []C20_FlushInv /\ [][C20_FlushStep]_vars

\* The case of C20: with a callback registered, Flush cleared the two seeded
\* entries, no callback was called, and an ItemCount call is reading the
\* empty map.
C20_Witness ==
    /\ onEvicted = "f"
    /\ AllFlushed
    /\ nextId = 2
    /\ removed = {}
    /\ ncalls = 0
    /\ pc["c1"] = "idle"
    /\ pc["c2"] = "ItemCount_read"

\* ------------------------------------------------------------------------
\* ReadSpec: a store made by NewFrom(2, 1, SeedMixed): "a" expires at 1, "b"
\* never expires.  Caller c1 reads with Get, GetWithExpiration and ItemCount
\* while c2 overwrites "a" and the janitor sweeps.
SeedMixed ==
    [k \in Keys |-> [Object |-> IF k = "a" THEN 7 ELSE 8,
                     Expiration |-> IF k = "a" THEN 1 ELSE 0,
                     id |-> IF k = "a" THEN 1 ELSE 2]]
ReadInit == NewFrom(2, 1, SeedMixed)

ReadNext ==
    \/ \E k \in Keys : GetCall("c1", k)
    \/ \E k \in Keys : GetWithExpirationCall("c1", k)
    \/ ItemCountCall("c1")
    \/ \E d \in {NoExpiration, 1} : SetCall("c2", "a", 1, d)
    \/ \E t \in Threads : Lock(t)
    \/ \E t \in Threads : GetRead(t)
    \/ \E t \in Threads : GetWithExpirationRead(t)
    \/ \E t \in Threads : ItemCountRead(t)
    \/ \E t \in Threads : SetStore(t)
    \/ \E t \in Threads : DeleteExpiredSweep(t)
    \/ JanitorTick
    \/ Tick

ReadSpec == ReadInit /\ [][ReadNext]_vars

\* The positions inside Get and GetWithExpiration (the read lock is held).
LookupPcs == {"Get_read", "GetWithExpiration_read"}

\* C21: Get and GetWithExpiration never modify the store.  From the entry of
\* the call to its return the map is what it was (no step taken while a
\* goroutine is inside Get or GetWithExpiration changes c.items, so ItemCount
\* is the same before and after the call), and a lookup of an entry that is
\* expired but not swept returns not found and leaves the entry in the map.
C21_ReadOnlyStep ==
    \A t \in Callers, k \in Keys :
        ((pc[t] \in LookupPcs \/ pc'[t] \in LookupPcs) /\ pc'[t] # pc[t]) =>
            /\ items' = items
            /\ ItemCount' = ItemCount
            /\ (pc[t] \in LookupPcs /\ call[t].k = k /\ k \in DOMAIN items
                  /\ items[k].Expiration > 0 /\ now > items[k].Expiration) =>
                   (~ret'[t].ok /\ ret'[t].val = 0 /\ k \in DOMAIN items')
C21_Held ==
    \A t \in Callers : pc[t] \in LookupPcs => (t \in mu.r /\ mu.w = Nil)
C21_ReadOnly ==
    /\ []C21_Held
    /\ [][C21_ReadOnlyStep]_vars
    /\ [][(\E t \in Callers : pc[t] \in LookupPcs) => items' = items]_vars

\* The case of C21: Get("a") returned not found at time 2, the seeded entry
\* of "a" (expired at 1) is still in the map with "b", and c2 has written
\* nothing.
C21_Witness ==
    /\ now = 2
    /\ pc["c1"] = "idle"
    /\ budget["c1"] = MaxCalls - 1
    /\ ~ret["c1"].ok
    /\ "a" \in DOMAIN items /\ items["a"].id = 1
    /\ ItemCount = 2
    /\ budget["c2"] = MaxCalls

\* C23: GetWithExpiration(k) reports found exactly when Get(k) does and
\* returns the same value; with found it returns the stored expiration
\* instant of an entry that expires and the zero time of one that never
\* does; with not found it returns the zero time.
C23_SameAsGetStep ==
    \A t \in Callers, k \in Keys :
        (pc[t] = "GetWithExpiration_read" /\ pc'[t] = "idle"
           /\ call[t].k = k) =>
            /\ ret'[t].ok = Get(k).found
            /\ ret'[t].val = Get(k).val
            /\ ret'[t].ok =>
                  /\ items[k].Expiration > 0 =>
                        ret'[t].exp = items[k].Expiration
                  /\ items[k].Expiration = 0 => ret'[t].exp = ZeroTime
                  /\ ret'[t].exp # ZeroTime => now <= ret'[t].exp
            /\ ~ret'[t].ok => ret'[t].exp = ZeroTime
C23_SameAsGet == [][C23_SameAsGetStep]_vars

\* The cases of C23: GetWithExpiration found "a" with its expiration
\* instant 1; found "b", which never expires, with the zero time; is looking
\* up the expired, unswept "a".
C23_Witness ==
    /\ pc["c1"] = "idle"
    /\ ret["c1"] = [NoRet EXCEPT !.val = 7, !.ok = TRUE, !.exp = 1]
    /\ "a" \in DOMAIN items /\ items["a"].id = 1
C23_WitnessNever ==
    /\ pc["c1"] = "idle"
    /\ ret["c1"] = [NoRet EXCEPT !.val = 8, !.ok = TRUE, !.exp = ZeroTime]
    /\ budget["c1"] = 0
C23_WitnessNotFound ==
    /\ pc["c1"] = "GetWithExpiration_read"
    /\ call["c1"].k = "a"
    /\ now = 2
    /\ "a" \in DOMAIN items /\ items["a"].id = 1

\* ------------------------------------------------------------------------
\* ItemsSpec: the store of ReadSpec.  Caller c1 calls Items() and deletes
\* keys from the maps it got, while c2 overwrites "a", deletes "b" and the
\* janitor sweeps.
ItemsInit == NewFrom(2, 1, SeedMixed)

ItemsNext ==
    \/ ItemsCall("c1")
    \/ \E k \in Keys : ItemsMapDelete("c1", k)
    \/ \E d \in {NoExpiration, 1} : SetCall("c2", "a", 1, d)
    \/ DeleteCall("c2", "b")
    \/ \E t \in Threads : Lock(t)
    \/ \E t \in Threads : ItemsMake(t)
    \/ \E t \in Threads : ItemsRange(t)
    \/ \E t \in Threads : ItemsReturn(t)
    \/ \E t \in Threads : SetStore(t)
    \/ \E t \in Threads : DeleteDelete(t)
    \/ \E t \in Threads : DeleteCheck(t)
    \/ \E t \in Threads : DeleteExpiredSweep(t)
    \/ JanitorTick
    \/ Tick

ItemsSpec == ItemsInit /\ [][ItemsNext]_vars

\* The positions inside Items (the read lock is held).
ItemsPcs == {"Items_make", "Items_range"}

\* The entries of the store that are not expired at time t0.
Unexpired(t0) ==
    {k \in DOMAIN items :
        items[k].Expiration = 0 \/ t0 <= items[k].Expiration}

\* C22: Items() returns a map holding exactly the entries of the store that
\* are unexpired at the instant the call reads the clock, all from one state
\* of the store (the store does not change from the entry of the call to its
\* return), and the map is a copy: a later operation on the store does not
\* change it, and a change made to it does not change the store.
C22_SnapshotStep ==
    \A t \in Callers :
        /\ (pc[t] = "Items_range" /\ pc'[t] = "idle") =>
              LET got == IF ret'[t].m.alias THEN items' ELSE ret'[t].m.items
              IN  /\ DOMAIN got = Unexpired(call[t].t)
                  /\ \A k \in DOMAIN got : got[k] = items[k]
        /\ (pc[t] \in ItemsPcs) => items' = items
        /\ (pc[t] = "idle" /\ pc'[t] = "idle" /\ ret'[t] = ret[t]) =>
              (IF ret[t].m.alias THEN items' ELSE ret[t].m.items)
                  = Deref(ret[t].m)
        /\ (pc[t] = "idle" /\ pc'[t] = "idle" /\ ret'[t] # ret[t]) =>
              items' = items
C22_Held ==
    \A t \in Callers : pc[t] \in ItemsPcs => (t \in mu.r /\ mu.w = Nil)
C22_WitnessWritten ==
    /\ pc["c1"] = "idle"
    /\ ret["c1"].ok
    /\ DOMAIN ret["c1"].m.items = {"b"}
    /\ now = 1
    /\ "a" \in DOMAIN items /\ items["a"].id = 1

\* ------------------------------------------------------------------------
\* DeleteSpec: the store of ReadSpec.  Caller c1 registers a callback and
\* deletes "a"; c2 deletes "a" and looks it up; the janitor sweeps.
DeleteInit == NewFrom(2, 1, SeedMixed)

DeleteNext ==
    \/ OnEvictedCall("c1", "f")
    \/ \E t \in Callers : DeleteCall(t, "a")
    \/ GetCall("c2", "a")
    \/ \E t \in Threads : Lock(t)
    \/ \E t \in Threads : OnEvictedStore(t)
    \/ \E t \in Threads : DeleteDelete(t)
    \/ \E t \in Threads : DeleteCheck(t)
    \/ \E t \in Threads : DeleteNotify(t)
    \/ \E t \in Threads : GetRead(t)
    \/ \E t \in Threads : DeleteExpiredSweep(t)
    \/ \E t \in Threads : DeleteExpiredNotify(t)
    \/ JanitorTick
    \/ Tick

DeleteSpec == DeleteInit /\ [][DeleteNext]_vars

\* Key k was last touched by a Delete: no write came after it.
Deleted(k) == last[k].by = "Delete"

\* C24: Delete(k) removes the entry of k if one is stored, live or expired,
\* and from then until k is written again k is not in the map and Get(k)
\* returns not found; when k is not stored Delete leaves the map as it is
\* and the call invokes no callback.
C24_DeleteStep ==
    \A t \in Callers, k \in Keys :
        /\ (pc[t] = "Delete_delete" /\ pc'[t] # pc[t] /\ call[t].k = k) =>
              /\ k \notin DOMAIN items'
              /\ ~Get(k)'.found
              /\ \A kk \in Keys \ {k} :
                    /\ (kk \in DOMAIN items') = (kk \in DOMAIN items)
                    /\ kk \in DOMAIN items => items'[kk] = items[kk]
              /\ k \notin DOMAIN items =>
                    (items' = items /\ removed' = removed
                       /\ ~call'[t].evicted)
              /\ k \in DOMAIN items =>
                    (call'[t].evicted /\ call'[t].v = items[k].Object)
        /\ (pc[t] = "Delete_check" /\ pc'[t] # pc[t] /\ ~call[t].evicted) =>
              (pc'[t] = "idle" /\ ncalls' = ncalls /\ called' = called)
        /\ (pc[t] = "Get_read" /\ pc'[t] = "idle" /\ call[t].k = k
              /\ Deleted(k)) => ~ret'[t].ok
C24_DeleteInv ==
    /\ \A k \in Keys : Deleted(k) => (k \notin DOMAIN items /\ ~Get(k).found)
    /\ \A t \in Callers : pc[t] = "Delete_notify" => call[t].evicted
C24_Delete == []C24_DeleteInv /\ [][C24_DeleteStep]_vars

\* The case of C24: with the callback registered, c2 deleted the expired,
\* unswept "a" at time 2 (the callback ran once), and c1's Delete of the now
\* absent "a" has found nothing and is at its test of the callback.
C24_Witness ==
    /\ onEvicted = "f"
    /\ now = 2
    /\ removed = {[key |-> "a", value |-> 7, id |-> 1, by |-> "Delete",
                   t |-> "c2", cb |-> "f"]}
    /\ ncalls = 1
    /\ pc["c1"] = "Delete_check"
    /\ ~call["c1"].evicted
    /\ DOMAIN items = {"b"}
\* c1 deleted the live "a" at time 0, and Get("a") by c2 returned not found.
C24_WitnessGet ==
    /\ now = 0
    /\ Deleted("a")
    /\ pc["c2"] = "idle"
    /\ budget["c2"] = MaxCalls - 1
    /\ ret["c2"] = NoRet
    /\ budget["c1"] = MaxCalls - 1

\* ------------------------------------------------------------------------
\* SweepRaceSpec: the store of ReadSpec.  Caller c1 calls DeleteExpired; c2
\* registers a callback and rewrites "a"; the janitor sweeps.  A Set can
\* store between the clock sample of a sweep and its Lock.
SweepRaceInit == NewFrom(2, 1, SeedMixed)

SweepRaceNext ==
    \/ DeleteExpiredCall("c1")
    \/ OnEvictedCall("c2", "f")
    \/ \E d \in {NoExpiration, 1} : SetCall("c2", "a", 1, d)
    \/ \E t \in Threads : Lock(t)
    \/ \E t \in Threads : OnEvictedStore(t)
    \/ \E t \in Threads : SetStore(t)
    \/ \E t \in Threads : DeleteExpiredSweep(t)
    \/ \E t \in Threads : DeleteExpiredNotify(t)
    \/ JanitorTick
    \/ Tick

SweepRaceSpec == SweepRaceInit /\ [][SweepRaceNext]_vars

\* The keys of the records of a sequence of evicted items.
EvictedKeys(s) == {s[i].key : i \in DOMAIN s}

\* C25: DeleteExpired removes every entry in the map whose expiration is set
\* and lies before the clock value the sweep sampled when it started; it
\* never removes, nor queues for the callback, an entry that is live when
\* the sweep examines it under the lock (whoever wrote it, and whenever),
\* nor one that never expires; and the callback is called only for entries
\* a sweep or a Delete removed.
C25_SweepStep ==
    \A t \in Threads, k \in Keys :
        (pc[t] = "DeleteExpired_sweep" /\ pc'[t] # pc[t]
           /\ k \in DOMAIN items) =>
            /\ (items[k].Expiration > 0 /\ items[k].Expiration < call[t].t) =>
                  /\ k \notin DOMAIN items'
                  /\ onEvicted # Nil => k \in EvictedKeys(call'[t].evictedItems)
            /\ (items[k].Expiration = 0 \/ now <= items[k].Expiration) =>
                  /\ k \in DOMAIN items' /\ items'[k] = items[k]
                  /\ k \notin EvictedKeys(call'[t].evictedItems)
                  /\ \A r \in removed' \ removed : r.key # k
            /\ call[t].t <= now
C25_SweepInv ==
    /\ \A c \in called : \E r \in removed : r.id = c.id /\ r.key = c.key
    /\ \A t \in Threads :
          pc[t] = "DeleteExpired_notify" =>
              \A i \in DOMAIN call[t].evictedItems :
                  \E r \in removed :
                      /\ r.id = call[t].evictedItems[i].id
                      /\ r.by = "DeleteExpired"
    /\ \A r \in removed : r.id # 2
C25_Sweep == []C25_SweepInv /\ [][C25_SweepStep]_vars

\* The case of C25: with the callback registered, c1's DeleteExpired has
\* returned at time 2; "a" had been rewritten by a Set that read the clock
\* at 2, and the sweep removed nothing and no callback ran.
C25_Witness ==
    /\ onEvicted = "f"
    /\ now = 2
    /\ pc["c1"] = "idle" /\ budget["c1"] = MaxCalls - 1
    /\ pc[JanitorT] = "select"
    /\ "a" \in DOMAIN items /\ items["a"].id = 3
    /\ last["a"].t = 2
    /\ removed = {}
    /\ ncalls = 0
\* The race of C25: c1's sweep sampled the clock at 2, when the seeded "a"
\* was expired, and waits for the lock that a Set of "a" holds.
C25_WitnessRace ==
    /\ pc["c1"] = "DeleteExpired_Lock" /\ call["c1"].t = 2
    /\ pc["c2"] = "Set_store"
    /\ "a" \in DOMAIN items /\ items["a"].id = 1
\* A sweep removed the expired seeded "a" and the callback ran for it.
C25_WitnessSwept ==
    /\ \E r \in removed : r.id = 1 /\ r.by = "DeleteExpired" /\ r.cb = "f"
    /\ \E c \in called : c.id = 1 /\ c.value = 7
    /\ DOMAIN items = {"b"}

\* ------------------------------------------------------------------------
\* SetSpec: empty stores made by New(de, 1) with a default expiration that
\* is negative, 0 or positive.  Caller c1 writes "a" with Set and SetDefault;
\* c2 looks it up with Get and GetWithExpiration; the janitor sweeps.
SetInit == \E de \in {-2, NoExpiration, 0, MaxDur} : NewFrom(de, 1, <<>>)

SetNext ==
    \/ \E d \in Durations : SetCall("c1", "a", 1, d)
    \/ SetDefaultCall("c1", "a", 2)
    \/ GetCall("c2", "a")
    \/ GetWithExpirationCall("c2", "a")
    \/ \E t \in Threads : Lock(t)
    \/ \E t \in Threads : SetStore(t)
    \/ \E t \in Threads : GetRead(t)
    \/ \E t \in Threads : GetWithExpirationRead(t)
    \/ \E t \in Threads : DeleteExpiredSweep(t)
    \/ JanitorTick
    \/ Tick

SetSpec == SetInit /\ [][SetNext]_vars

\* The expiration the interface of Set promises for duration d at time t0:
\* the store's default TTL for DefaultExpiration (none when that is not
\* positive), none (0) for NoExpiration, t0 + d for d > 0.
PromisedExpiration(d, t0) ==
    IF d = DefaultExpiration
    THEN IF defaultExpiration > 0 THEN t0 + defaultExpiration ELSE 0
    ELSE IF d = NoExpiration THEN 0 ELSE t0 + d

\* C26: Set(k, x, d) always succeeds and stores x under k with the expiration
\* picked from d (the default TTL for DefaultExpiration, never for
\* NoExpiration, the time of the call plus d for d > 0), whatever was stored
\* before, and leaves the other keys alone; SetDefault(k, x) leaves the store
\* as Set(k, x, DefaultExpiration) does.
C26_SetStep ==
    \A t \in Callers, k \in Keys :
        (pc[t] = "Set_store" /\ pc'[t] # pc[t] /\ call[t].k = k) =>
            /\ pc'[t] = "idle" /\ ret'[t].ok /\ ret'[t].err = Nil
            /\ k \in DOMAIN items'
            /\ items'[k].Object = call[t].x
            /\ call[t].op = "Set" =>
                  items'[k].Expiration
                      = PromisedExpiration(call[t].d, call[t].t)
            /\ call[t].op = "SetDefault" =>
                  items'[k].Expiration
                      = PromisedExpiration(DefaultExpiration, call[t].t)
            /\ items'[k].Expiration = 0 =>
                  \A t0 \in 0..(MaxTime + 1) : ~expiredInline(items'[k], t0)
            /\ call[t].t <= now
            /\ \A kk \in DOMAIN items \ {k} :
                  kk \in DOMAIN items' /\ items'[kk] = items[kk]
            /\ DOMAIN items' = DOMAIN items \cup {k}
C26_CallStep ==
    \A t \in Callers :
        (pc[t] = "idle" /\ pc'[t] = "Set_Lock") =>
            /\ call'[t].t = now
            /\ call'[t].op \in {"Set", "SetDefault"}
C26_Set == [][C26_SetStep /\ C26_CallStep]_vars

\* The cases of C26: in a store with default TTL MaxDur, SetDefault at time 1
\* stored "a" with expiration 1 + MaxDur; Set with d = 1 stored it with
\* expiration 2; Set with NoExpiration
\* stored an entry with no expiration over an earlier one.
C26_Witness ==
    /\ defaultExpiration = MaxDur
    /\ pc["c1"] = "idle"
    /\ last["a"] = [by |-> "SetDefault", x |-> 2, d |-> DefaultExpiration,
                    t |-> 1]
    /\ "a" \in DOMAIN items
    /\ items["a"].Object = 2 /\ items["a"].Expiration = 1 + MaxDur
C26_WitnessTTL ==
    /\ last["a"] = [by |-> "Set", x |-> 1, d |-> 1, t |-> 1]
    /\ "a" \in DOMAIN items /\ items["a"].Expiration = 2
C26_WitnessNever ==
    /\ last["a"] = [by |-> "Set", x |-> 1, d |-> NoExpiration, t |-> 1]
    /\ "a" \in DOMAIN items /\ items["a"].Expiration = 0 /\ items["a"].id = 2
    /\ now = 2

\* Key k holds what a Set or SetDefault with DefaultExpiration wrote.
DefaultWritten(k) ==
    last[k].by \in {"Set", "SetDefault"} /\ last[k].d = DefaultExpiration

\* C27: in a store constructed with a default expiration <= 0 (0 or
\* NoExpiration), an entry written by Set(k, x, DefaultExpiration) or by
\* SetDefault never expires: at every later time it is in the map, Get and
\* GetWithExpiration find it, and GetWithExpiration returns the zero time.
C27_NeverInv ==
    \A k \in Keys :
        (defaultExpiration <= 0 /\ DefaultWritten(k)) =>
            /\ k \in DOMAIN items
            /\ items[k].Object = last[k].x
            /\ Get(k).found /\ Get(k).val = last[k].x
            /\ GetWithExpiration(k).found
            /\ GetWithExpiration(k).exp = ZeroTime
C27_NeverStep ==
    \A t \in Callers, k \in Keys :
        (pc[t] \in LookupPcs /\ pc'[t] = "idle" /\ call[t].k = k
           /\ defaultExpiration <= 0 /\ DefaultWritten(k)) =>
            (ret'[t].ok /\ ret'[t].val = last[k].x /\ ret'[t].exp = ZeroTime)
C27_Never == []C27_NeverInv /\ [][C27_NeverStep]_vars

\* The case of C27: in a store made with default expiration 0 or
\* NoExpiration, SetDefault wrote "a" at time 0, and at time 2, after the
\* janitor's sweeps, a lookup has found it and returned the zero time.
C27_Witness ==
    /\ defaultExpiration = NoExpiration
    /\ last["a"] = [by |-> "SetDefault", x |-> 2, d |-> DefaultExpiration,
                    t |-> 0]
    /\ now = 2
    /\ ~janitor.ticker /\ pc[JanitorT] = "select"
    /\ pc["c2"] = "idle"
    /\ ret["c2"] = [NoRet EXCEPT !.val = 2, !.ok = TRUE]
    /\ budget["c2"] = MaxCalls - 1

\* ------------------------------------------------------------------------
\* JanitorSpec: stores made by NewFrom(2, ci, SeedExpiring) with a cleanup
\* interval that is negative, 0 or positive.  Caller c1 registers a
\* callback, writes "a" and sweeps by hand; the janitor, when there is one,
\* sweeps on its ticks; at any moment the handle may be dropped and
\* collected.  Every goroutine inside a call goes on, and the select of the
\* janitor, which picks among its ready cases at random, does not pass over
\* a waiting stop for ever.
JanitorInit == \E ci \in {-1, 0, 1} : NewFrom(2, ci, SeedExpiring)

JanitorNext ==
    \/ OnEvictedCall("c1", "f")
    \/ SetCall("c1", "a", 1, 1)
    \/ DeleteExpiredCall("c1")
    \/ \E t \in Threads : Lock(t)
    \/ \E t \in Threads : OnEvictedStore(t)
    \/ \E t \in Threads : SetStore(t)
    \/ \E t \in Threads : DeleteExpiredSweep(t)
    \/ \E t \in Threads : DeleteExpiredNotify(t)
    \/ JanitorTick
    \/ StopRecv
    \/ Collect
    \/ Tick
    \/ TickOn

JanitorFair ==
    /\ \A t \in Threads : WF_vars(Step(t))
    /\ SF_vars(StopRecv)

JanitorSpec == JanitorInit /\ [][JanitorNext]_vars /\ JanitorFair

\* The positions of a goroutine inside DeleteExpired.
SweepPcs == {"DeleteExpired_Lock", "DeleteExpired_sweep", "DeleteExpired_notify"}

\* C28: a store constructed with a cleanup interval <= 0 never has a
\* janitor: there is no janitor goroutine and no ticker, no sweep runs in
\* the background (every entry removed is removed by a caller's call, and
\* every step that changes the map is a step of a caller inside a call), no
\* finalizer is set and no stop signal is ever sent or waiting to be sent.
C28_NoJanitorInv ==
    handle.ci <= 0 =>
        /\ janitor.Interval = 0 /\ ~janitor.ticker
        /\ pc[JanitorT] = "none"
        /\ call[JanitorT] = NoCall
        /\ ~handle.finalizer /\ ~handle.sending /\ handle.sent = 0
        /\ \A r \in removed : r.t \in Callers
C28_NoJanitorStep ==
    handle.ci <= 0 =>
        /\ items' # items =>
              \E t \in Callers : pc[t] \in {"Set_store", "DeleteExpired_sweep"}
                                   /\ pc'[t] # pc[t] /\ mu.w = t
        /\ handle'.sent = handle.sent
C28_NoJanitor == []C28_NoJanitorInv /\ [][C28_NoJanitorStep]_vars

\* The case of C28: in a store made with cleanup interval 0 the clock is at
\* MaxTime, the seeded entry, expired since time 2, is still in the map, the
\* handle has been collected and no stop signal was sent.
C28_Witness ==
    /\ handle.ci = 0
    /\ now = MaxTime
    /\ "a" \in DOMAIN items /\ items["a"].id = 1
    /\ expiredInline(items["a"], now)
    /\ ~handle.reachable
    /\ handle.sent = 0 /\ ~handle.sending
\* In a store made with a negative interval the caller's own DeleteExpired
\* removed the expired entry.
C28_WitnessByHand ==
    /\ handle.ci = -1
    /\ \E r \in removed : r.id = 1 /\ r.by = "DeleteExpired" /\ r.t = "c1"
    /\ DOMAIN items = {}

\* C29: the janitor is a machine of two states.  It exists, Running, exactly
\* when the store was constructed with an interval > 0.  While Running it
\* leaves its select only by receiving a tick, which starts one
\* DeleteExpired (reading the clock then) after which it is back at the
\* select, or by receiving the stop signal, which makes it Stopped; a tick is
\* taken from the ticker only by the janitor starting a DeleteExpired, and a
\* tick that is waiting is eventually taken unless the janitor is stopped.
\* Stopped, it stays stopped: it starts no DeleteExpired and its ticker
\* ticks no more.
C29_MachineInv ==
    /\ (pc[JanitorT] # "none") = (handle.ci > 0)
    /\ pc[JanitorT] \in {"none", "select", "stopped"} \cup SweepPcs
    /\ pc[JanitorT] \in SweepPcs => call[JanitorT].op = "DeleteExpired"
    /\ pc[JanitorT] = "stopped" => handle.sent = 1
C29_MachineStep ==
    /\ (pc[JanitorT] = "select" /\ pc'[JanitorT] # "select") =>
          \/ /\ janitor.ticker /\ ~janitor'.ticker
             /\ pc'[JanitorT] = "DeleteExpired_Lock"
             /\ call'[JanitorT].op = "DeleteExpired"
             /\ call'[JanitorT].t = now
             /\ handle' = handle
          \/ /\ handle.sending /\ ~handle'.sending
             /\ pc'[JanitorT] = "stopped"
    /\ (janitor.ticker /\ ~janitor'.ticker) =>
          (pc[JanitorT] = "select" /\ pc'[JanitorT] = "DeleteExpired_Lock")
    /\ (pc[JanitorT] \in SweepPcs /\ pc'[JanitorT] # pc[JanitorT]) =>
          \/ pc'[JanitorT] = "select"
          \/ /\ pc[JanitorT] = "DeleteExpired_Lock"
             /\ pc'[JanitorT] = "DeleteExpired_sweep"
          \/ /\ pc[JanitorT] = "DeleteExpired_sweep"
             /\ pc'[JanitorT] = "DeleteExpired_notify"
    /\ pc[JanitorT] = "stopped" =>
          /\ pc'[JanitorT] = "stopped"
          /\ call'[JanitorT] = call[JanitorT]
          /\ janitor' = janitor
          /\ \A r \in removed' \ removed : r.t # JanitorT
    /\ pc[JanitorT] = "none" => pc'[JanitorT] = "none"
C29_Machine ==
    /\ []C29_MachineInv
    /\ [][C29_MachineStep]_vars
    /\ (janitor.ticker /\ pc[JanitorT] # "stopped")
          ~> (~janitor.ticker \/ pc[JanitorT] = "stopped")

\* The case of C29: the janitor received a tick and swept the expired entry
\* (calling the callback), then received the stop signal; it is stopped
\* while the clock has gone on to MaxTime and a later entry of "a" has
\* expired and stays in the map.
C29_Witness ==
    /\ pc[JanitorT] = "stopped"
    /\ \E r \in removed : r.id = 1 /\ r.by = "DeleteExpired" /\ r.t = JanitorT
    /\ now = MaxTime
    /\ "a" \in DOMAIN items /\ items["a"].id = 2
    /\ expiredInline(items["a"], now)

\* C30: when the handle of a store that started a janitor is collected, the
\* finalizer sends the stop signal, once: the send completes only together
\* with the janitor's receive at its select (so after a sweep under way and
\* its callbacks are over), it happens at most once, and from the collection
\* on the janitor eventually is stopped, with the signal sent exactly once
\* and no sender left waiting.
C30_StopInv ==
    /\ handle.sent <= 1
    /\ handle.sending => (~handle.reachable /\ handle.finalizer
                            /\ handle.sent = 0)
    /\ handle.sent = 1 => (pc[JanitorT] = "stopped" /\ ~handle.reachable)
    /\ handle.finalizer = (handle.ci > 0)
C30_StopStep ==
    /\ handle'.sent # handle.sent =>
          /\ handle'.sent = handle.sent + 1
          /\ pc[JanitorT] = "select" /\ pc'[JanitorT] = "stopped"
          /\ mu.w # JanitorT
          /\ items' = items /\ ncalls' = ncalls
    /\ (handle.reachable /\ ~handle'.reachable) =>
          handle'.sending = (handle.ci > 0)
    /\ ~handle.reachable => ~handle'.reachable
C30_Stop ==
    /\ []C30_StopInv
    /\ [][C30_StopStep]_vars
    /\ (~handle.reachable /\ handle.finalizer)
          ~> (pc[JanitorT] = "stopped" /\ handle.sent = 1 /\ ~handle.sending)

\* The case of C30: the handle was collected while the janitor was in the
\* middle of a sweep, with the callback of the entry it removed still to
\* call; the callback has run, and the janitor has received the stop signal.
C30_WitnessMid ==
    /\ ~handle.reachable /\ handle.sending
    /\ pc[JanitorT] = "DeleteExpired_notify"
    /\ ncalls = 0
C30_Witness ==
    /\ ~handle.reachable /\ ~handle.sending /\ handle.sent = 1
    /\ pc[JanitorT] = "stopped"
    /\ called = {[f |-> "f", key |-> "a", value |-> 7, id |-> 1]}
    /\ \E r \in removed : r.id = 1 /\ r.t = JanitorT
    /\ now = 2

\* ------------------------------------------------------------------------
\* TornSpec: a store made by NewFrom(2, 1, SeedLive), "a" holding 7 with an
\* expiration after the last clock value.  Caller c2 overwrites "a" by
\* Set("a", 1, NoExpiration), the store written field by field; c1 reads "a"
\* with Get and GetWithExpiration; the janitor sweeps.
SeedLive ==
    [k \in {"a"} |-> [Object |-> 7, Expiration |-> MaxTime + 1, id |-> 1]]
TornInit == NewFrom(2, 1, SeedLive)

TornNext ==
    \/ GetCall("c1", "a")
    \/ GetWithExpirationCall("c1", "a")
    \/ SetCall("c2", "a", 1, NoExpiration)
    \/ \E t \in Threads : Lock(t)
    \/ \E t \in Threads : GetRead(t)
    \/ \E t \in Threads : GetWithExpirationRead(t)
    \/ \E t \in Threads : SetStoreHalf(t)
    \/ \E t \in Threads : SetStoreRest(t)
    \/ \E t \in Threads : DeleteExpiredSweep(t)
    \/ JanitorTick
    \/ Tick

TornSpec == TornInit /\ [][TornNext]_vars

\* What a lookup returns of the old entry and of the new one.
OldEntry == [NoRet EXCEPT !.val = 7, !.ok = TRUE, !.exp = MaxTime + 1]
NewEntry == [NoRet EXCEPT !.val = 1, !.ok = TRUE, !.exp = ZeroTime]

\* C31: a Get(k) or GetWithExpiration(k) running concurrently with a
\* Set(k, ...) returns the complete old entry or the complete new one, value
\* and expiration belonging together: the old one as long as no Set has
\* stored, the new one once a Set has returned; never the value of one with
\* the expiration of the other.
C31_NoTornStep ==
    \A t \in Callers :
        /\ (pc[t] = "GetWithExpiration_read" /\ pc'[t] = "idle") =>
              /\ ret'[t] \in {OldEntry, NewEntry}
              /\ nextId = 1 => ret'[t] = OldEntry
              /\ last["a"].by = "Set" => ret'[t] = NewEntry
        /\ (pc[t] = "Get_read" /\ pc'[t] = "idle") =>
              /\ ret'[t].ok /\ ret'[t].val \in {7, 1}
              /\ nextId = 1 => ret'[t].val = 7
              /\ last["a"].by = "Set" => ret'[t].val = 1
C31_NoTornInv ==
    \A t \in Callers :
        pc[t] \in LookupPcs =>
            \A u \in Threads : pc[u] # "Set_store_rest"
C31_NoTorn == []C31_NoTornInv /\ [][C31_NoTornStep]_vars

\* The case of C31: c1 is inside GetWithExpiration("a") holding the read
\* lock, and c2, whose second Set has computed its expiration, waits for the
\* write lock; the first Set has stored.
C31_Witness ==
    /\ pc["c1"] = "GetWithExpiration_read"
    /\ pc["c2"] = "Set_Lock"
    /\ mu.r = {"c1"}
    /\ nextId = 2
    /\ items["a"] = [Object |-> 1, Expiration |-> 0, id |-> 2]
\* The lookup returned the old entry while a Set was waiting for the lock.
C31_WitnessOld ==
    /\ pc["c1"] = "idle" /\ ret["c1"] = OldEntry
    /\ pc["c2"] = "Set_Lock"
    /\ nextId = 1
\* A Set is between its two writes, a lookup is waiting to begin.
C31_WitnessHalf ==
    /\ pc["c2"] = "Set_store_rest"
    /\ items["a"].Object # 7 \/ items["a"].Expiration # MaxTime + 1
    /\ items["a"].id = 1
    /\ pc["c1"] = "idle" /\ budget["c1"] > 0

\* ------------------------------------------------------------------------
\* ProgressSpec: a store made by NewFrom(2, 1, SeedExpiring).  Caller c1
\* registers a callback (one that returns at once, or one that calls Set of
\* the store); c2 deletes "a"; the janitor sweeps and calls the callback;
\* the handle may be collected, which leaves a stop signal waiting for the
\* janitor.  Every goroutine inside a call goes on; a goroutine waiting in
\* Lock is not passed over for ever (sync.Mutex hands the lock to a waiter
\* that starves), nor is a waiting stop by the janitor's select.
ProgressInit == NewFrom(2, 1, SeedExpiring)

ProgressNext ==
    \/ \E h \in {"f", "hSet"} : OnEvictedCall("c1", h)
    \/ DeleteCall("c2", "a")
    \/ \E t \in Threads : Lock(t)
    \/ \E t \in Threads : OnEvictedStore(t)
    \/ \E t \in Threads : DeleteDelete(t)
    \/ \E t \in Threads : DeleteCheck(t)
    \/ \E t \in Threads : DeleteCallback(t)
    \/ \E t \in Threads : DeleteExpiredSweep(t)
    \/ \E t \in Threads : DeleteExpiredCallback(t)
    \/ \E t \in Threads : CbLock(t)
    \/ \E t \in Threads : CbBody(t)
    \/ JanitorTick
    \/ StopRecv
    \/ Collect
    \/ Tick
    \/ TickOn

ProgressSpec ==
    /\ ProgressInit
    /\ [][ProgressNext]_vars
    /\ \A t \in Threads : WF_vars(ReentryStep(t))
    /\ \A t \in Threads : SF_vars(Lock(t) \/ CbLock(t))
    /\ SF_vars(StopRecv)

\* The positions of a goroutine that is in no call of the store.
RestPcs == {"idle", "select", "stopped", "none"}
\* The positions between a Lock or RLock and its Unlock.
HeldPcs ==
    {"OnEvicted_store", "Delete_delete",
     "DeleteExpired_sweep", "cb_body"}

\* C32: every operation, once invoked, eventually returns (the callbacks
\* here return): in no reachable state are all the goroutines that are
\* inside a call unable to take a step, every goroutine inside a call is
\* eventually out of it, a waiting stop signal is eventually received, and
\* a goroutine that is in no call holds no lock (the lock is held exactly
\* between an operation's Lock and its Unlock).
C32_ProgressInv ==
    /\ \A t \in Threads :
          /\ pc[t] \in RestPcs => (mu.w # t /\ t \notin mu.r)
          /\ (mu.w = t \/ t \in mu.r) = (pc[t] \in HeldPcs)
    /\ (\E t \in Threads : pc[t] \notin RestPcs) =>
          (\E t \in Threads : pc[t] \notin RestPcs /\ ENABLED ReentryStep(t))
    /\ handle.sending =>
          (ENABLED StopRecv \/ ENABLED ReentryStep(JanitorT)
             \/ \E t \in Threads : pc[t] \in HeldPcs /\ ENABLED ReentryStep(t))
    /\ ~fault
C32_WitnessStop ==
    /\ handle.sending
    /\ pc[JanitorT] = "DeleteExpired_Lock"
    /\ mu.w = "c2"
\* All have returned after callbacks ran in the janitor and in a caller; the
\* mutex is free.
C32_WitnessDone ==
    /\ \A t \in Threads : pc[t] \in RestPcs
    /\ mu = Unlocked
    /\ \E c \in called : c.id = 1
    /\ \E c \in called : c.id = 2
    /\ budget["c2"] = 0

\* ------------------------------------------------------------------------
\* LinSpec: a store made by NewFrom(2, 1, SeedExpiring), no callback.  Caller
\* c1 calls Add, Increment, Delete, Flush and Items, caller c2 calls Set,
\* Replace, Decrement, Get, ItemCount and DeleteExpired, all on key "a";
\* the janitor sweeps; time passes between any two steps.
LinInit == NewFrom(2, 1, SeedExpiring)

LinNext ==
    \/ AddCall("c1", "a", 1, 1)
    \/ IncrementCall("c1", "a", 1)
    \/ DeleteCall("c1", "a")
    \/ FlushCall("c1")
    \/ ItemsCall("c1")
    \/ \E d \in {NoExpiration, 1} : SetCall("c2", "a", 2, d)
    \/ ReplaceCall("c2", "a", 3, DefaultExpiration)
    \/ DecrementCall("c2", "a", 1)
    \/ GetCall("c2", "a")
    \/ ItemCountCall("c2")
    \/ DeleteExpiredCall("c2")
    \/ \E t \in Threads : Lock(t)
    \/ \E t \in Threads : SetStore(t)
    \/ \E t \in Threads : AddGet(t)
    \/ \E t \in Threads : AddSet(t)
    \/ \E t \in Threads : ReplaceGet(t)
    \/ \E t \in Threads : ReplaceSet(t)
    \/ \E t \in Threads : IncrementLoad(t)
    \/ \E t \in Threads : IncrementStore(t)
    \/ \E t \in Threads : DecrementLoad(t)
    \/ \E t \in Threads : DecrementStore(t)
    \/ \E t \in Threads : GetRead(t)
    \/ \E t \in Threads : ItemsMake(t)
    \/ \E t \in Threads : ItemsRange(t)
    \/ \E t \in Threads : ItemsReturn(t)
    \/ \E t \in Threads : ItemCountRead(t)
    \/ \E t \in Threads : FlushClear(t)
    \/ \E t \in Threads : DeleteDelete(t)
    \/ \E t \in Threads : DeleteCheck(t)
    \/ \E t \in Threads : DeleteExpiredSweep(t)
    \/ JanitorTick
    \/ Tick

LinSpec == LinInit /\ [][LinNext]_vars

\* The entries of a map without the identities the history gives them.
Plain(m) ==
    [k \in DOMAIN m |->
        [Object |-> m[k].Object, Expiration |-> m[k].Expiration]]
put(m, k, x, e) ==
    [j \in DOMAIN m \cup {k} |->
        IF j = k THEN [Object |-> x, Expiration |-> e] ELSE m[j]]

\* The methods run alone, as functions of the map m, the call c (method,
\* arguments, and the clock value a method reads before it locks), the
\* clock value clk of its expiry test and the clock value at its write:
\* the new map and the returned values.
Atomic(m, c, clk, at) ==
    LET same(val, ok, err) ==
            [items |-> m, val |-> val, ok |-> ok, err |-> err, m |-> <<>>]
        to(mm, val) ==
            [items |-> mm, val |-> val, ok |-> TRUE, err |-> Nil, m |-> <<>>]
        found == c.k \in DOMAIN m /\ ~expiredInline(m[c.k], clk)
    IN  CASE c.op \in {"Set", "SetDefault"} ->
               to(put(m, c.k, c.x, expiration(c.d, c.t)), 0)
          [] c.op = "Add" ->
               IF found THEN same(0, FALSE, "KeyExists")
               ELSE to(put(m, c.k, c.x, expiration(c.d, at)), 0)
          [] c.op = "Replace" ->
               IF ~found THEN same(0, FALSE, "KeyNotFound")
               ELSE to(put(m, c.k, c.x, expiration(c.d, at)), 0)
          [] c.op \in {"Increment", "Decrement"} ->
               IF c.k \notin DOMAIN m \/ Expired(m[c.k], clk)
               THEN same(0, FALSE, "KeyNotFound")
               ELSE LET nv == IF c.op = "Increment"
                              THEN Wrap(m[c.k].Object + c.x)
                              ELSE Wrap(m[c.k].Object - c.x)
                    IN  to(put(m, c.k, nv, m[c.k].Expiration), nv)
          [] c.op = "Get" ->
               IF found THEN same(m[c.k].Object, TRUE, Nil)
               ELSE same(0, FALSE, Nil)
          [] c.op = "Items" ->
               [same(0, TRUE, Nil) EXCEPT
                   !.m = [k \in {j \in DOMAIN m :
                                   ~expiredInline(m[j], c.t)} |-> m[k]]]
          [] c.op = "ItemCount" -> same(Cardinality(DOMAIN m), TRUE, Nil)
          [] c.op = "Delete" -> to(remove(m, {c.k}), 0)
          [] c.op = "DeleteExpired" ->
               to(remove(m, {j \in DOMAIN m : expiredInline(m[j], c.t)}), 0)
          [] c.op = "Flush" -> to(<<>>, 0)

\* Goroutine t is between a Lock or RLock and the Unlock of its call.
Holds(t) == mu.w = t \/ t \in mu.r
\* The methods that return values, and return them with their Unlock.
Valued ==
    {"Add", "Replace", "Increment", "Decrement", "Get", "Items", "ItemCount"}

\* C33: the map changes only in the step in which a goroutine releases the
\* write lock of its call; in the step in which a call releases its lock the
\* map becomes, and the call returns, what the method run alone on the map
\* of that moment gives (with an expiry test at a clock value of the call),
\* so a concurrent run has the results and the map of the calls run one
\* after the other in the order of these steps, each step within its call.
C33_AtomicStep ==
    /\ items' # items =>
          \E t \in Threads : mu.w = t /\ ~Holds(t)' /\ pc[t] # Home(t)
    /\ \A t \in Threads :
          (Holds(t) /\ ~Holds(t)') =>
             /\ pc[t] # Home(t)
             /\ \E clk \in 0..now :
                   LET a == Atomic(Plain(items), call[t], clk, now)
                   IN  /\ Plain(items') = a.items
                       /\ call[t].op \in Valued =>
                             /\ pc'[t] = Home(t)
                             /\ ret'[t].val = a.val
                             /\ ret'[t].ok = a.ok
                             /\ ret'[t].err = a.err
                             /\ ~ret'[t].m.alias
                             /\ Plain(ret'[t].m.items) = a.m
\* At most one goroutine writes, and then none reads.
C33_AtomicInv ==
    /\ \A t, u \in Threads : (mu.w = t /\ Holds(u)) => u = t
    /\ \A t \in Threads : Holds(t) => pc[t] # Home(t)
    /\ ~fault
C33_WitnessAfter ==
    /\ last["a"].by = "Set" /\ last["a"].t = 0
    /\ "a" \in DOMAIN items /\ items["a"] = [Object |-> 2, Expiration |-> 1, id |-> 3]
    /\ now = 2
    /\ ret["c1"].err = Nil /\ ret["c1"].ok
    /\ budget["c1"] = MaxCalls - 1
    /\ \A t \in Callers : pc[t] = "idle"
C33_WitnessSweep ==
    /\ pc[JanitorT] = "DeleteExpired_Lock"
    /\ pc["c1"] = "Increment_store"
    /\ pc["c2"] = "DeleteExpired_Lock"

\* ------------------------------------------------------------------------
\* RebuildSpec: a store made by NewFrom(2, 1, m) for every map m of the
\* seeds: a key is absent or holds an entry without expiration, with a
\* negative one, or with one that passes while the model runs.  Caller c1
\* takes Items() snapshots and builds a new store from one with NewFrom;
\* c2 looks keys up and sweeps; the janitor sweeps.
SeedExpirations == {-1, 0, 1, MaxTime}
SeedMaps ==
    UNION {[S -> {7} \X SeedExpirations] : S \in SUBSET Keys}
SeedOf(f) ==
    [k \in DOMAIN f |->
        [Object |-> IF k = "a" THEN f[k][1] ELSE f[k][1] + 1,
         Expiration |-> f[k][2],
         id |-> IF k = "a" THEN 1 ELSE 2]]
RebuildInit == \E f \in SeedMaps : NewFrom(2, 1, SeedOf(f))

\* NewFrom(2, 1, m) with the map m that the caller's last Items() returned:
\* from here on the model follows the new store (the old one is dropped
\* with its janitor at rest).  The clock is the same for both.
Rebuild(t) ==
    /\ ~fault
    /\ \A u \in Threads : pc[u] = Home(u)
    /\ ret[t].ok
    /\ budget[t] > 0
    /\ budget' = [budget EXCEPT ![t] = @ - 1]
    /\ items' = Deref(ret[t].m)
    /\ mu' = Unlocked
    /\ onEvicted' = Nil
    /\ janitor' = [Interval |-> 1, ticker |-> FALSE]
    /\ handle' = [ci |-> 1, reachable |-> TRUE, finalizer |-> TRUE,
                  sending |-> FALSE, sent |-> 0]
    /\ ret' = [u \in Threads |-> NoRet]
    /\ last' = [k \in Keys |-> [NoLast EXCEPT !.by = "NewFrom", !.t = now]]
    /\ UNCHANGED <<T, defaultExpiration, now, pc, call, fault, nextId,
                   removed, called, ncalls, oplog>>

RebuildNext ==
    \/ ItemsCall("c1")
    \/ Rebuild("c1")
    \/ \E k \in Keys : GetCall("c2", k)
    \/ \E k \in Keys : GetWithExpirationCall("c2", k)
    \/ DeleteExpiredCall("c2")
    \/ \E t \in Threads : Lock(t)
    \/ \E t \in Threads : ItemsMake(t)
    \/ \E t \in Threads : ItemsRange(t)
    \/ \E t \in Threads : ItemsReturn(t)
    \/ \E t \in Threads : GetRead(t)
    \/ \E t \in Threads : GetWithExpirationRead(t)
    \/ \E t \in Threads : DeleteExpiredSweep(t)
    \/ JanitorTick
    \/ Tick

RebuildSpec == RebuildInit /\ [][RebuildNext]_vars

\* C34: (1) a store built by NewFrom from the map m returns from Get, for
\* every key of m whose entry is not expired at the time of the call,
\* (m's value, true), whatever was swept meanwhile; (2) at every instant
\* after an Items() snapshot of a store was taken, Get and GetWithExpiration
\* return for every key the same from the store built from the snapshot as
\* from the store the snapshot was taken from.
C34_FromMap(m, k) ==
    (items = m) =>
       []((k \in DOMAIN m /\ ~expiredInline(m[k], now)) =>
             Get(k) = [val |-> m[k].Object, found |-> TRUE])
C34_RebuildStep ==
    \A t \in Callers :
       (budget'[t] # budget[t] /\ pc'[t] = pc[t]) =>
          /\ items' = ret[t].m.items
          /\ ~ret[t].m.alias
          /\ \A k \in Keys :
                /\ Get(k)' = Get(k)
                /\ GetWithExpiration(k)' = GetWithExpiration(k)
C34_RoundTrip ==
    /\ \A f \in SeedMaps : \A k \in Keys : C34_FromMap(SeedOf(f), k)
    /\ [][C34_RebuildStep]_vars

\* The case of C34: the store built from a snapshot that left out the
\* expired, not yet swept entry b of the seed, and kept a with its
\* expiration; the clock has moved on since the snapshot.
C34_Witness ==
    /\ last["a"].by = "NewFrom" /\ last["a"].t = MaxTime
    /\ DOMAIN items = {"a"}
    /\ items["a"] = [Object |-> 7, Expiration |-> MaxTime, id |-> 1]
    /\ removed = {}
C34_WitnessDropped ==
    /\ ret["c1"].ok /\ pc["c1"] = "idle"
    /\ DOMAIN ret["c1"].m.items = {"a"}
    /\ DOMAIN items = {"a", "b"}
    /\ items["a"].Expiration = -1
    /\ items["b"].Expiration = 1
    /\ now = MaxTime
C34_WitnessGet ==
    /\ ret["c2"] = [NoRet EXCEPT !.val = 7, !.ok = TRUE]
    /\ now = MaxTime
    /\ items = [k \in {"a"} |-> [Object |-> 7, Expiration |-> -1, id |-> 1]]
    /\ \E r \in removed : r.key = "b"

\* ------------------------------------------------------------------------
\* FrameSpec: a store made by NewFrom(2, 1, m) with a live entry a that
\* expires after the model's last clock value and an entry b that expires
\* at 1.  c1 increments and decrements a, rewrites it with SetDefault and
\* registers a callback; c2 replaces a, adds b, reads with Get,
\* GetWithExpiration, Items and ItemCount and sweeps; the janitor sweeps.
SeedFrame ==
    [k \in Keys |-> [Object |-> IF k = "a" THEN 7 ELSE 8,
                     Expiration |-> IF k = "a" THEN MaxTime + 1 ELSE 1,
                     id |-> IF k = "a" THEN 1 ELSE 2]]
FrameInit == NewFrom(2, 1, SeedFrame)

FrameNext ==
    \/ IncrementCall("c1", "a", 1)
    \/ DecrementCall("c1", "a", 1)
    \/ SetDefaultCall("c1", "a", 1)
    \/ OnEvictedCall("c1", "f")
    \/ ReplaceCall("c2", "a", 2, 1)
    \/ AddCall("c2", "b", 3, NoExpiration)
    \/ GetCall("c2", "a")
    \/ GetWithExpirationCall("c2", "a")
    \/ ItemsCall("c2")
    \/ ItemCountCall("c2")
    \/ DeleteExpiredCall("c2")
    \/ \E t \in Threads : Lock(t)
    \/ \E t \in Threads : SetStore(t)
    \/ \E t \in Threads : AddGet(t)
    \/ \E t \in Threads : AddSet(t)
    \/ \E t \in Threads : ReplaceGet(t)
    \/ \E t \in Threads : ReplaceSet(t)
    \/ \E t \in Threads : IncrementLoad(t)
    \/ \E t \in Threads : IncrementStore(t)
    \/ \E t \in Threads : DecrementLoad(t)
    \/ \E t \in Threads : DecrementStore(t)
    \/ \E t \in Threads : OnEvictedStore(t)
    \/ \E t \in Threads : GetRead(t)
    \/ \E t \in Threads : GetWithExpirationRead(t)
    \/ \E t \in Threads : ItemsMake(t)
    \/ \E t \in Threads : ItemsRange(t)
    \/ \E t \in Threads : ItemsReturn(t)
    \/ \E t \in Threads : ItemCountRead(t)
    \/ \E t \in Threads : DeleteExpiredSweep(t)
    \/ \E t \in Threads : DeleteExpiredNotify(t)
    \/ JanitorTick
    \/ Tick

FrameSpec == FrameInit /\ [][FrameNext]_vars

\* The statements that rewrite a key: Set's (SetDefault is a Set), Add's and
\* Replace's store.
RewritePcs == {"Set_store", "Add_set", "Replace_set"}
Rewriters == {"Set", "SetDefault", "Add", "Replace"}

\* C35: in a step that leaves key k in the map with another expiration, a
\* Set, SetDefault, Add or Replace of k stores and returns; the store of an
\* Increment or Decrement of k leaves k with the new value and the
\* expiration it had; so no step of Get, GetWithExpiration, Items,
\* ItemCount, OnEvicted or DeleteExpired changes the expiration of an entry
\* that stays.
C35_FrameStep ==
    \A k \in Keys :
       (k \in DOMAIN items /\ k \in DOMAIN items') =>
          /\ items'[k].Expiration # items[k].Expiration =>
                \E t \in Threads :
                   /\ pc[t] \in RewritePcs /\ pc'[t] = Home(t)
                   /\ call[t].op \in Rewriters
                   /\ call[t].k = k
                   /\ mu.w = t
          /\ \A t \in Threads :
                (/\ pc[t] \in {"Increment_store", "Decrement_store"}
                 /\ pc'[t] # pc[t]
                 /\ call[t].k = k) =>
                   /\ items'[k].Expiration = items[k].Expiration
                   /\ items'[k].Object =
                         Wrap(IF call[t].op = "Increment"
                              THEN items[k].Object + call[t].x
                              ELSE items[k].Object - call[t].x)
                   /\ ret'[t] = [NoRet EXCEPT !.val = items'[k].Object,
                                              !.ok = TRUE]
C35_Frame == [][C35_FrameStep]_vars

\* The case of C35: after an Increment and a Decrement at a later clock
\* value the seeded entry has its value back and the expiration it was
\* seeded with, while the expired b was swept.
C35_Witness ==
    /\ "a" \in DOMAIN items
    /\ items["a"].Expiration = MaxTime + 1
    /\ items["a"].Object = 7
    /\ Len(oplog) = 2
    /\ last["a"].by \in {"Increment", "Decrement"}
    /\ now >= 1
    /\ \E r \in removed : r.key = "b"
C35_WitnessRewritten ==
    /\ "a" \in DOMAIN items
    /\ last["a"].by = "Replace"
    /\ items["a"].Expiration = 2
    /\ ret["c1"].val = 8 /\ ret["c1"].ok
    /\ Len(oplog) = 1
C35_WitnessRead ==
    /\ ret["c2"].exp = MaxTime + 1
    /\ ret["c2"].val = 8
    /\ onEvicted = "f"

\* ------------------------------------------------------------------------
\* C36, checked in EvictSpec (both seeded entries expire at 1, a callback is
\* registered, c2 calls Add(a, 2, 1), both callers delete a, sweeps run).
\* Entry i (the i-th write of the history) was replaced: it left the map
\* and neither Delete nor a sweep removed it.  In EvictSpec only Add writes.
Replaced(i) ==
    /\ \A k \in DOMAIN items : items[k].id # i
    /\ \A r \in removed : r.id # i

\* C36: Add(k, x, d) that finds under its lock an entry of k that is
\* expired (and still in the map) goes on to its store, which succeeds and
\* leaves k with x and the expiration of d from the clock; the Add invokes
\* no callback and removes nothing; and for an entry that was replaced no
\* callback is invoked in any later state, by no sweep and no Delete.
C36_AddStep ==
    /\ \A t \in Threads :
          (/\ pc[t] = "Add_get" /\ pc'[t] # pc[t]
           /\ call[t].k \in DOMAIN items
           /\ expiredInline(items[call[t].k], now)) =>
             /\ pc'[t] = "Add_set"
             /\ items' = items /\ called' = called /\ removed' = removed
    /\ \A t \in Threads :
          (pc[t] = "Add_set" /\ pc'[t] # pc[t]) =>
             /\ ret'[t] = [NoRet EXCEPT !.ok = TRUE]
             /\ items'[call[t].k] =
                   [Object |-> call[t].x,
                    Expiration |-> expiration(call[t].d, now),
                    id |-> nextId + 1]
             /\ \A k \in DOMAIN items \ {call[t].k} :
                   k \in DOMAIN items' /\ items'[k] = items[k]
             /\ called' = called /\ ncalls' = ncalls /\ removed' = removed
    /\ \A i \in 1..nextId : Replaced(i) => Replaced(i)'
C36_AddInv ==
    \A i \in 1..nextId : Replaced(i) => \A c \in called : c.id # i
C36_Add == []C36_AddInv /\ [][C36_AddStep]_vars

\* The case of C36: with the callback registered, the Add replaced the
\* expired seeded a (entry 1); a sweep after it removed only b and called
\* the callback for b alone.
C36_Witness ==
    /\ Replaced(1)
    /\ onEvicted = "f"
    /\ "a" \in DOMAIN items /\ items["a"].Object = 2
    /\ called = {[f |-> "f", key |-> "b", value |-> 8, id |-> 2]}
    /\ \A r \in removed : r.by = "DeleteExpired" /\ r.cb = "f"
    /\ pc[JanitorT] = "select"

\* ------------------------------------------------------------------------
\* InverseSpec: a numeric store of uint8 or of int8 with one live entry a
\* holding the least, the greatest or a middle value of the type.  c1
\* increments and decrements a by an n of the type (0, 1, -1, the least,
\* the greatest); c2 increments a by 1 and reads it.
Amounts == {0, 1, -1, 2 ^ (Bits - 1) - 1, 0 - 2 ^ (Bits - 1), 2 ^ Bits - 1}
SeedValue(v) ==
    [k \in {"a"} |-> [Object |-> v, Expiration |-> 0, id |-> 1]]
InverseInit ==
    \E ty \in {"uint8", "int8"} :
       \E v \in {MinT(ty), 7, MaxT(ty)} :
          NewNumericFrom(ty, 2, 0, SeedValue(v))

InverseNext ==
    \/ \E n \in Amounts : InT(n) /\ IncrementCall("c1", "a", n)
    \/ \E n \in Amounts : InT(n) /\ DecrementCall("c1", "a", n)
    \/ IncrementCall("c2", "a", 1)
    \/ GetCall("c2", "a")
    \/ \E t \in Threads : IncrementLoad(t)
    \/ \E t \in Threads : IncrementStore(t)
    \/ \E t \in Threads : DecrementLoad(t)
    \/ \E t \in Threads : DecrementStore(t)
    \/ \E t \in Threads : GetRead(t)

InverseSpec == InverseInit /\ [][InverseNext]_vars

\* C37: when the last write of k was an Increment(k, n) that found the value
\* v, a Decrement(k, n) stores and returns v; the value the Increment left
\* is of the type (it wrapped when v + n is not).
C37_InverseStep ==
    \A t \in Threads :
       (/\ pc[t] = "Decrement_store" /\ pc'[t] # pc[t]
        /\ last[call[t].k].by = "Increment"
        /\ oplog # <<>>
        /\ oplog[Len(oplog)].delta = call[t].x) =>
          /\ items'[call[t].k].Object = oplog[Len(oplog)].old
          /\ ret'[t] = [NoRet EXCEPT !.val = oplog[Len(oplog)].old,
                                     !.ok = TRUE]
          /\ InT(items[call[t].k].Object)
          /\ items[call[t].k].Object =
                Wrap(oplog[Len(oplog)].old + call[t].x)
C37_InverseLive ==
    \A t \in Threads :
       (pc[t] = "Decrement_load" /\ pc'[t] # pc[t]) => pc'[t] = "Decrement_store"
C37_Inverse == [][C37_InverseStep /\ C37_InverseLive]_vars

\* The case of C37: an int8 entry holding 127 was incremented by 127,
\* which wrapped to -2, and the Decrement by 127 has restored 127.
C37_Witness ==
    /\ T = "int8"
    /\ Len(oplog) = 2
    /\ oplog[1] = [old |-> 127, delta |-> 127]
    /\ oplog[2] = [old |-> -2, delta |-> -127]
    /\ items["a"].Object = 127
    /\ ret["c1"] = [NoRet EXCEPT !.val = 127, !.ok = TRUE]
C37_WitnessUint ==
    /\ T = "uint8"
    /\ Len(oplog) = 2
    /\ oplog[1] = [old |-> 255, delta |-> 255]
    /\ oplog[2] = [old |-> 254, delta |-> -255]
    /\ items["a"].Object = 255
C37_WitnessOther ==
    /\ Len(oplog) = 3
    /\ oplog[1].delta = 1 /\ oplog[2].delta = 1 /\ oplog[3].delta = -1
    /\ oplog[1].old = 255 /\ items["a"].Object = 0

\* ------------------------------------------------------------------------
\* ClassSpec: a numeric store made by NewNumericFrom from a map whose entry
\* a has a negative Expiration, none (0), one that passes at 1 or one that
\* does not pass.  c1 calls Increment(a, 0) and Decrement(a, 0); c2 calls
\* Get, Replace and Add of a; time passes.
SeedAt(e) ==
    [k \in {"a"} |-> [Object |-> 7, Expiration |-> e, id |-> 1]]
ClassInit ==
    \E e \in {-1, 0, 1, MaxTime + 1} : NewNumericFrom("uint8", 2, 0, SeedAt(e))

ClassNext ==
    \/ IncrementCall("c1", "a", 0)
    \/ DecrementCall("c1", "a", 0)
    \/ GetCall("c2", "a")
    \/ ReplaceCall("c2", "a", 7, NoExpiration)
    \/ AddCall("c2", "a", 7, NoExpiration)
    \/ \E t \in Threads : IncrementLoad(t)
    \/ \E t \in Threads : IncrementStore(t)
    \/ \E t \in Threads : DecrementLoad(t)
    \/ \E t \in Threads : DecrementStore(t)
    \/ \E t \in Threads : GetRead(t)
    \/ \E t \in Threads : ReplaceGet(t)
    \/ \E t \in Threads : ReplaceSet(t)
    \/ \E t \in Threads : AddGet(t)
    \/ \E t \in Threads : AddSet(t)
    \/ Tick

ClassSpec == ClassInit /\ [][ClassNext]_vars

\* For the keys in scope: the test of an Increment, Decrement or Replace of
\* k passes (the call goes on to its store) exactly when Get(k) at this
\* instant finds k, and the test of an Add of k exactly when it does not.
SameClassStep(scope(_)) ==
    \A t \in Threads :
       scope(call[t].k) =>
          /\ (pc[t] \in {"Increment_load", "Decrement_load", "Replace_get"}
              /\ pc'[t] # pc[t]) =>
                (pc'[t] \in {"Increment_store", "Decrement_store",
                             "Replace_set"}
                    <=> Get(call[t].k).found)
          /\ (pc[t] = "Add_get" /\ pc'[t] # pc[t]) =>
                (pc'[t] = "Add_set" <=> ~Get(call[t].k).found)
AnyKey(k) == TRUE
NotNegative(k) == k \in DOMAIN items => items[k].Expiration >= 0

\* C38: at every instant and for every Expiration the entry of k holds,
\* Increment(k, 0) and Decrement(k, 0) succeed exactly when Get(k) at that
\* instant finds k, Replace(k, ..) succeeds exactly then and Add(k, ..)
\* fails exactly then.
C38_SameClass == [][SameClassStep(AnyKey)]_vars

\* The same for the entries whose Expiration is not negative, which are all
\* the entries that the methods of the store write.
C38_SameStored == [][SameClassStep(NotNegative)]_vars

\* An entry with a negative Expiration that Get finds and Increment(a, 0)
\* or Decrement(a, 0) has not found.
C38_Negative ==
    /\ "a" \in DOMAIN items
    /\ items["a"].Expiration < 0
    /\ now > items["a"].Expiration
    /\ Get("a") = [val |-> 7, found |-> TRUE]
    /\ ret["c1"] = [NoRet EXCEPT !.err = "KeyNotFound"]
    /\ budget["c1"] < MaxCalls /\ pc["c1"] = "idle"

\* ------------------------------------------------------------------------
\* CallbackSpec: a store made by NewFrom(2, 1, SeedTwo), no callback at
\* first.  c1 registers the callbacks f and g; c2 deletes a and sweeps; the
\* janitor sweeps.
CallbackInit == NewFrom(2, 1, SeedTwo)

CallbackNext ==
    \/ \E h \in {"f", "g"} : OnEvictedCall("c1", h)
    \/ DeleteCall("c2", "a")
    \/ DeleteExpiredCall("c2")
    \/ \E t \in Threads : Lock(t)
    \/ \E t \in Threads : OnEvictedStore(t)
    \/ \E t \in Threads : DeleteDelete(t)
    \/ \E t \in Threads : DeleteCheck(t)
    \/ \E t \in Threads : DeleteNotify(t)
    \/ \E t \in Threads : DeleteExpiredSweep(t)
    \/ \E t \in Threads : DeleteExpiredNotify(t)
    \/ JanitorTick
    \/ Tick

CallbackSpec == CallbackInit /\ [][CallbackNext]_vars

\* C39: every invocation of a callback for an entry is an invocation of the
\* callback that was registered when the entry was removed under the lock;
\* so a callback registered after the removal is not invoked for it, and an
\* entry removed with no callback registered is the subject of no
\* invocation.
C39_Registered ==
    \A c \in called :
       \E r \in removed : r.id = c.id /\ r.key = c.key /\ r.cb = c.f

\* What the code keeps of it: an invocation is for an entry that Delete or
\* DeleteExpired removed, once per entry, and an entry that a sweep removed
\* with no callback registered is the subject of none.
C39_Removed ==
    /\ \A c \in called :
          \E r \in removed : r.id = c.id /\ r.key = c.key /\ r.value = c.value
    /\ \A r \in removed :
          (r.by = "DeleteExpired" /\ r.cb = Nil) =>
             \A c \in called : c.id # r.id
    /\ \A c, d \in called : c.id = d.id => c = d

\* Delete removed a while no callback was registered, and f, registered
\* after the removal, was invoked for a.
C39_Late ==
    /\ \E r \in removed : r.id = 1 /\ r.by = "Delete" /\ r.cb = Nil
    /\ \E c \in called : c.id = 1 /\ c.f = "f"
\* A sweep removed b while f was registered, and g was invoked for b.
C39_Swapped ==
    /\ \E r \in removed : r.id = 2 /\ r.by = "DeleteExpired" /\ r.cb = "f"
    /\ \E c \in called : c.id = 2 /\ c.f = "g"

\* ------------------------------------------------------------------------
\* The metered numeric cache (cache_mutex_metered.go).  numericMeteredCache
\* embeds *numericCache and declares Increment and Decrement of its own,
\* whose body is `defer counter.Inc(); return nmc.Increment(k, n)`: the
\* selector nmc.Increment denotes the method of numericMeteredCache itself
\* (the shallowest one), not the promoted method of the embedded store.
MeteredIncrementCall(t, k, n) ==
    /\ Begin(t, [NoCall EXCEPT !.op = "MeteredIncrement", !.k = k, !.x = n,
                               !.depth = 1],
             "Metered_call")
    /\ UNCHANGED <<cfgVars, histVars, items, mu, onEvicted, janitor, now,
                   fault>>
MeteredDecrementCall(t, k, n) ==
    /\ Begin(t, [NoCall EXCEPT !.op = "MeteredDecrement", !.k = k, !.x = n,
                               !.depth = 1],
             "Metered_call")
    /\ UNCHANGED <<cfgVars, histVars, items, mu, onEvicted, janitor, now,
                   fault>>

\* return nmc.Increment(k, n) (return nmc.Decrement(k, n)): one more frame
\* of the same method, with its own deferred Inc; when the stack is at its
\* limit the runtime ends the program (fatal error: stack overflow).
MeteredCall(t) ==
    /\ ~fault
    /\ pc[t] = "Metered_call"
    /\ IF call[t].depth < MaxStack
       THEN /\ call' = [call EXCEPT ![t].depth = @ + 1]
            /\ UNCHANGED fault
       ELSE /\ fault' = TRUE
            /\ UNCHANGED call
    /\ UNCHANGED <<cfgVars, histVars, items, mu, onEvicted, janitor, now, pc,
                   ret, budget>>

\* MeterSpec: NewNumericMetered[uint8](2, 1).  c1 calls the metered
\* Increment and Decrement of a; c2 sets a and reads it through the
\* promoted methods of the embedded store; the janitor sweeps.  A goroutine
\* inside the metered method keeps running.
MeterInit == NewNumericFrom("uint8", 2, 1, <<>>)

MeterNext ==
    \/ MeteredIncrementCall("c1", "a", 1)
    \/ MeteredDecrementCall("c1", "a", 1)
    \/ SetCall("c2", "a", 1, NoExpiration)
    \/ GetCall("c2", "a")
    \/ \E t \in Threads : MeteredCall(t)
    \/ \E t \in Threads : Lock(t)
    \/ \E t \in Threads : SetStore(t)
    \/ \E t \in Threads : GetRead(t)
    \/ \E t \in Threads : DeleteExpiredSweep(t)
    \/ JanitorTick
    \/ Tick

MeterSpec ==
    /\ MeterInit
    /\ [][MeterNext]_vars
    /\ \A t \in Callers : WF_vars(MeteredCall(t))

\* C40: a call of the metered Increment or Decrement ends, without ending
\* the program, and when it ends the entry holds and the call has returned
\* what Increment or Decrement of the wrapped store gives.
C40_ReturnStep ==
    \A t \in Callers :
       (pc[t] = "Metered_call" /\ pc'[t] = "idle") =>
          LET a == Atomic(Plain(items),
                          [call[t] EXCEPT !.op = IF @ = "MeteredIncrement"
                                                 THEN "Increment"
                                                 ELSE "Decrement"],
                          now, now)
          IN  /\ Plain(items') = a.items
              /\ ret'[t] = [NoRet EXCEPT !.val = a.val, !.ok = a.ok,
                                         !.err = a.err]
C40_Wrapper ==
    /\ [](~fault)
    /\ [][C40_ReturnStep]_vars
    /\ \A t \in Callers : (pc[t] = "Metered_call") ~> (pc[t] = "idle")

\* The stack of c1 is full of frames of the metered method, the program has
\* ended, and the entry that c2 stored was never incremented.
C40_Overflow ==
    /\ fault
    /\ pc["c1"] = "Metered_call" /\ call["c1"].depth = MaxStack
    /\ "a" \in DOMAIN items /\ items["a"].Object = 1
    /\ oplog = <<>>
\* No call of a metered method ever returns or writes.
C40_NeverReturns ==
    [][\A t \in Callers : pc[t] = "Metered_call" =>
          (pc'[t] = "Metered_call" /\ oplog' = oplog)]_vars
====
